---- MODULE Spec2Model ----
(***************************************************************************)
(* CryptoExplorer: the data-derivation utilities of utils/formatters       *)
(* (calculateDifficulty, identifyMiner, the formatters), the transaction   *)
(* aggregation of TransactionItem, the blockchain service and the          *)
(* load-more of HomePage and TransactionList.  For the utilities, which    *)
(* are pure functions, the state machine records the last call made by a   *)
(* caller: which function, the arguments it was given and the value it     *)
(* returned.  The service and the two components are state machines of     *)
(* their own, each in one variable that holds the fields of the code.      *)
(*                                                                         *)
(* JavaScript strings are TLA+ strings.  JavaScript numbers that can       *)
(* exceed the 31-bit integers of the model checker are kept in limbs       *)
(* (Num) or, for BigInt and for the returned difficulty, as canonical      *)
(* lower-case hexadecimal numerals ("0", "1", "ba8b2f", ...).              *)
(***************************************************************************)
EXTENDS Integers, Sequences, FiniteSets, TLC

VARIABLES fn, args, result, pick,      \* the last call of a utility
          earlier,                      \* a call of a utility made before it
          service,                      \* getTransactionsByIds in progress
          homePage,                     \* HomePage and the chain it shows
          transactionList               \* TransactionList and its query

vars == <<fn, args, result, pick, earlier, service, homePage, transactionList>>

\* what a call of a utility leaves alone
componentVars == <<earlier, service, homePage, transactionList>>

\* what the service and the components leave alone
callVars == <<fn, args, result, pick, earlier>>

-----------------------------------------------------------------------------
(* Characters and strings                                                  *)

HexChars == "0123456789abcdef"
UpperChars == "ABCDEFGHIJKLMNOPQRSTUVWXYZ"
LowerChars == "abcdefghijklmnopqrstuvwxyz"

CharAt(s, i) == SubSeq(s, i, i)

\* 1-based position of the one-character string c in alphabet, 0 if absent
IndexIn(c, alphabet) ==
  IF \E i \in 1..Len(alphabet) : CharAt(alphabet, i) = c
  THEN CHOOSE i \in 1..Len(alphabet) : CharAt(alphabet, i) = c
  ELSE 0

CharsOf(alphabet) == {CharAt(alphabet, i) : i \in 1..Len(alphabet)}

LowerTable ==
  [c \in CharsOf(UpperChars) |-> CharAt(LowerChars, IndexIn(c, UpperChars))]

UpperTable ==
  [c \in CharsOf(LowerChars) |-> CharAt(UpperChars, IndexIn(c, LowerChars))]

LowerChar(c) == IF c \in DOMAIN LowerTable THEN LowerTable[c] ELSE c

UpperChar(c) == IF c \in DOMAIN UpperTable THEN UpperTable[c] ELSE c

\* The operators that walk a whole string split it in halves, so that the
\* depth of the evaluation grows with the logarithm of its length.
RECURSIVE toLowerCase(_)
toLowerCase(s) ==
  IF Len(s) = 0 THEN ""
  ELSE IF Len(s) = 1 THEN LowerChar(s)
  ELSE toLowerCase(SubSeq(s, 1, Len(s) \div 2))
         \o toLowerCase(SubSeq(s, Len(s) \div 2 + 1, Len(s)))

RECURSIVE toUpperCase(_)
toUpperCase(s) ==
  IF Len(s) = 0 THEN ""
  ELSE IF Len(s) = 1 THEN UpperChar(s)
  ELSE toUpperCase(SubSeq(s, 1, Len(s) \div 2))
         \o toUpperCase(SubSeq(s, Len(s) \div 2 + 1, Len(s)))

startsWith(s, p) == Len(s) >= Len(p) /\ SubSeq(s, 1, Len(p)) = p

includes(s, p) ==
  \E i \in 1..(Len(s) - Len(p) + 1) : SubSeq(s, i, i + Len(p) - 1) = p

substring(s, from) == SubSeq(s, from + 1, Len(s))

RECURSIVE padStart(_, _, _)
padStart(s, n, c) == IF Len(s) >= n THEN s ELSE padStart(c \o s, n, c)

ZeroString == "0000000000000000000000000000000000000000000000000000000000000000000000000000000000000000000000000000000000000000000000000000000000000000000000000000000000000000000000000000000000000000000000000000000000000000000000000000000000000000000000000000000000000000"

\* a string of n zeros, n <= 256
Zeros(n) == SubSeq(ZeroString, 1, n)

HexTable ==
  [c \in CharsOf(HexChars) \cup CharsOf("ABCDEF") |->
     IndexIn(LowerChar(c), HexChars) - 1]

\* value of a hexadecimal digit character (either case), -1 for any other
HexVal(c) == IF c \in DOMAIN HexTable THEN HexTable[c] ELSE -1

HexDigit(d) == CharAt(HexChars, d + 1)

-----------------------------------------------------------------------------
(* JavaScript values                                                       *)

Null == [t |-> "null"]
Undefined == [t |-> "undefined"]
Bool(b) == [t |-> "boolean", b |-> b]
Str(s) == [t |-> "string", s |-> s]
\* the non-negative integer hi * 65536 + lo
Num(hi, lo) == [t |-> "number", nan |-> FALSE, hi |-> hi, lo |-> lo]
NaN == [t |-> "number", nan |-> TRUE, hi |-> 0, lo |-> 0]
\* an object with the own properties DOMAIN f
Obj(f) == [t |-> "object", f |-> f]
\* an array
Arr(items) == [t |-> "array", items |-> items]

IsNaN(v) == v.t = "number" /\ v.nan

typeof(v) == IF v.t \in {"null", "array"} THEN "object" ELSE v.t

isArray(v) == v.t = "array"

Truthy(v) ==
  CASE v.t = "null" -> FALSE
    [] v.t = "undefined" -> FALSE
    [] v.t = "boolean" -> v.b
    [] v.t = "string" -> v.s # ""
    [] v.t = "number" -> ~IsNaN(v) /\ ~(v.hi = 0 /\ v.lo = 0)
    [] OTHER -> TRUE

\* a || b
OrElse(a, b) == IF Truthy(a) THEN a ELSE b

\* property read o.k, for the property names of the block and transaction
\* objects, on a value other than null and undefined
Get(o, k) == IF o.t = "object" /\ k \in DOMAIN o.f THEN o.f[k] ELSE Undefined

\* the integer of a number, and the number of an integer (below 2^31)
ToInt(v) == v.hi * 65536 + v.lo
IntNum(n) ==
  IF n >= 0 THEN Num(n \div 65536, n % 65536)
  ELSE Num(0 - ((0 - n) \div 65536), 0 - ((0 - n) % 65536))

-----------------------------------------------------------------------------
(* Number <-> string conversions                                           *)

RECURSIVE SmallToHex(_)
SmallToHex(n) ==
  IF n < 16 THEN HexDigit(n) ELSE SmallToHex(n \div 16) \o HexDigit(n % 16)

\* Number.prototype.toString(16) for the numbers of the model
NumToString16(v) ==
  IF IsNaN(v) THEN "NaN"
  ELSE IF v.hi = 0 THEN SmallToHex(v.lo)
  ELSE SmallToHex(v.hi) \o padStart(SmallToHex(v.lo), 4, "0")

\* the digits of parseInt: the longest prefix of s made of hex digits
RECURSIVE ParseDigits(_, _, _)
ParseDigits(s, acc, seen) ==
  IF s = "" \/ HexVal(CharAt(s, 1)) < 0
  THEN IF seen THEN acc ELSE NaN
  ELSE LET d == HexVal(CharAt(s, 1))
           low == acc.lo * 16 + d
       IN ParseDigits(Tail(s), Num(acc.hi * 16 + (low \div 65536), low % 65536), TRUE)

\* as ParseDigits, for a parser that knows the lower-case digits only
RECURSIVE ParseLowerDigits(_, _, _)
ParseLowerDigits(s, acc, seen) ==
  IF s = "" \/ CharAt(s, 1) \notin CharsOf(HexChars)
  THEN IF seen THEN acc ELSE NaN
  ELSE LET d == HexVal(CharAt(s, 1))
           low == acc.lo * 16 + d
       IN ParseLowerDigits(Tail(s), Num(acc.hi * 16 + (low \div 65536), low % 65536), TRUE)

RECURSIVE TrimStart(_)
TrimStart(s) == IF s # "" /\ CharAt(s, 1) = " " THEN TrimStart(Tail(s)) ELSE s

\* mutant of parseInt16: upper-case hex digits are not recognised
parseInt16LowerCaseOnly(s) ==
  LET t == TrimStart(s)
      neg == t # "" /\ CharAt(t, 1) = "-"
      u == IF t # "" /\ CharAt(t, 1) \in {"-", "+"} THEN Tail(t) ELSE t
      w == IF startsWith(u, "0x") \/ startsWith(u, "0X") THEN substring(u, 2) ELSE u
      n == ParseLowerDigits(w, Num(0, 0), FALSE)
  IN IF neg /\ ~IsNaN(n) THEN Num(0 - n.hi, 0 - n.lo) ELSE n

\* parseInt(s, 16): leading blanks, an optional sign, an optional 0x / 0X,
\* then the longest run of hex digits; NaN when that run is empty.
parseInt16(s) ==
  LET t == TrimStart(s)
      neg == t # "" /\ CharAt(t, 1) = "-"
      u == IF t # "" /\ CharAt(t, 1) \in {"-", "+"} THEN Tail(t) ELSE t
      w == IF startsWith(u, "0x") \/ startsWith(u, "0X") THEN substring(u, 2) ELSE u
      n == ParseDigits(w, Num(0, 0), FALSE)
  IN IF neg /\ ~IsNaN(n) THEN Num(0 - n.hi, 0 - n.lo) ELSE n

-----------------------------------------------------------------------------
(* Int32 operators on the numbers parseInt16 gives the callers below       *)
(* (NaN or a non-negative integer)                                         *)

\* v >> 24: ToInt32(v), then the arithmetic (sign-propagating) shift
Sar24(v) ==
  IF IsNaN(v) THEN 0
  ELSE LET topByte == (v.hi % 65536) \div 256
       IN IF topByte >= 128 THEN topByte - 256 ELSE topByte

\* v & 0x00FFFFFF
And00FFFFFF(v) == IF IsNaN(v) THEN 0 ELSE (v.hi % 256) * 65536 + v.lo

-----------------------------------------------------------------------------
(* BigInt, as a canonical hex numeral                                      *)

\* the numeral s without its leading zeros
StripZeros(s) ==
  LET nonZero == {i \in 1..Len(s) : CharAt(s, i) # "0"}
  IN IF nonZero = {} THEN (IF s = "" THEN "" ELSE "0")
     ELSE SubSeq(s, CHOOSE i \in nonZero : \A j \in nonZero : i <= j, Len(s))

\* BigInt(n) of a non-negative integer n
BigInt(n) == SmallToHex(n)

\* b << k and b >> k for a shift count k that is a whole number of bytes
BigShl(b, k) == IF b = "0" THEN "0" ELSE b \o Zeros(k \div 4)

BigShr(b, k) ==
  IF Len(b) <= k \div 4 THEN "0" ELSE SubSeq(b, 1, Len(b) - k \div 4)

\* the value of a numeral of at most 6 digits
RECURSIVE SmallOfHex(_, _)
SmallOfHex(s, acc) ==
  IF s = "" THEN acc ELSE SmallOfHex(Tail(s), acc * 16 + HexVal(CharAt(s, 1)))

\* long division of the digits a by the integer m, 0 < m < 2^24, entered
\* with remainder rem: the quotient digits and the remainder left
RECURSIVE ShortDiv(_, _, _)
ShortDiv(a, m, rem) ==
  IF Len(a) = 0 THEN [q |-> "", rem |-> rem]
  ELSE IF Len(a) = 1
  THEN LET cur == rem * 16 + HexVal(a)
       IN [q |-> HexDigit(cur \div m), rem |-> cur % m]
  ELSE LET high == ShortDiv(SubSeq(a, 1, Len(a) \div 2), m, rem)
           low == ShortDiv(SubSeq(a, Len(a) \div 2 + 1, Len(a)), m, high.rem)
       IN [q |-> high.q \o low.q, rem |-> low.rem]

\* the number of zero digits that end the numeral s, s # "0"
TrailingZeros(s) ==
  LET nonZero == {i \in 1..Len(s) : CharAt(s, i) # "0"}
      last == CHOOSE i \in nonZero : \A j \in nonZero : j <= i
  IN Len(s) - last

\* a / b on BigInt (truncating); division by 0n raises a RangeError.  The
\* divisors here are a 24-bit mantissa times a power of 16: the power is
\* divided out of both operands first, then the mantissa by long division.
BigDiv(a, b) ==
  IF b = "0" THEN "RangeError"
  ELSE LET z == TrailingZeros(b)
           m == SmallOfHex(SubSeq(b, 1, Len(b) - z), 0)
       IN StripZeros(ShortDiv(BigShr(a, 4 * z), m, 0).q)

\* e, with x evaluated before it (the low digits before the high ones)
After(x, e) == IF x = x THEN e ELSE e

\* the digits s times the integer k, 0 <= k < 2^24, entered with carry:
\* as many product digits as s has, and the carry left
RECURSIVE MulSmall(_, _, _)
MulSmall(s, k, carry) ==
  IF Len(s) = 0 THEN [digits |-> "", carry |-> carry]
  ELSE IF Len(s) = 1
  THEN LET p == HexVal(s) * k + carry
       IN [digits |-> HexDigit(p % 16), carry |-> p \div 16]
  ELSE LET low == MulSmall(SubSeq(s, Len(s) \div 2 + 1, Len(s)), k, carry)
           high == MulSmall(SubSeq(s, 1, Len(s) \div 2), k, low.carry)
       IN After(low, [digits |-> high.digits \o low.digits, carry |-> high.carry])

-----------------------------------------------------------------------------
(* Number(bigint): the nearest IEEE-754 double, ties to even.  A double    *)
(* holds 53 significant bits; the value returned is again an integer and   *)
(* is written as a hex numeral.                                            *)

BinTable == "0000000100100011010001010110011110001001101010111100110111101111"

Nibble(d) == SubSeq(BinTable, 4 * d + 1, 4 * d + 4)

RECURSIVE HexToBin(_)
HexToBin(s) ==
  IF Len(s) = 0 THEN ""
  ELSE IF Len(s) = 1 THEN Nibble(HexVal(s))
  ELSE HexToBin(SubSeq(s, 1, Len(s) \div 2))
         \o HexToBin(SubSeq(s, Len(s) \div 2 + 1, Len(s)))

\* the hex digits of a binary numeral whose length is a multiple of 4
RECURSIVE NibblesToHex(_)
NibblesToHex(b) ==
  IF Len(b) = 0 THEN ""
  ELSE IF Len(b) = 4 THEN HexDigit(CHOOSE d \in 0..15 : Nibble(d) = b)
  ELSE LET half == 4 * ((Len(b) \div 4) \div 2)
       IN NibblesToHex(SubSeq(b, 1, half)) \o NibblesToHex(SubSeq(b, half + 1, Len(b)))

BinToHex(b) ==
  NibblesToHex(IF Len(b) % 4 = 0 THEN b ELSE Zeros(4 - (Len(b) % 4)) \o b)

\* b + 1 on a binary numeral
BinInc(b) ==
  LET zeroAt == {i \in 1..Len(b) : CharAt(b, i) = "0"}
  IN IF zeroAt = {} THEN "1" \o Zeros(Len(b))
     ELSE LET i == CHOOSE x \in zeroAt : \A y \in zeroAt : y <= x
          IN SubSeq(b, 1, i - 1) \o "1" \o Zeros(Len(b) - i)

MantissaBits == 53

\* mutant of NumberOfBigInt: the bits below the 53rd are cut off
NumberOfBigIntTruncated(q) ==
  LET b == StripZeros(HexToBin(q))
      n == Len(b)
  IN IF n <= MantissaBits THEN q
     ELSE StripZeros(BinToHex(SubSeq(b, 1, MantissaBits) \o Zeros(n - MantissaBits)))

NumberOfBigInt(q) ==
  LET b == StripZeros(HexToBin(q))
      n == Len(b)
  IN IF n <= MantissaBits THEN q
     ELSE LET top == SubSeq(b, 1, MantissaBits)
              rest == SubSeq(b, MantissaBits + 1, n)
              half == CharAt(rest, 1) = "1"
              sticky == includes(Tail(rest), "1")
              odd == CharAt(top, MantissaBits) = "1"
              top2 == IF half /\ (sticky \/ odd) THEN BinInc(top) ELSE top
          IN StripZeros(BinToHex(top2 \o Zeros(n - MantissaBits)))

-----------------------------------------------------------------------------
(* calculateDifficulty                                                     *)

\* mutant of DifficultyOfTarget: the target as mantissa * 2^(8 * (exponent - 3)),
\* a BigInt power that raises a RangeError for an exponent below 3
DifficultyOfTargetByPower(exponent, mantissa) ==
  IF exponent < 3 THEN "0"
  ELSE LET target == BigShl(BigInt(mantissa), 8 * (exponent - 3))
           maxTarget == BigShl(BigInt(65535), 208)
       IN IF target = "0" THEN "0" ELSE NumberOfBigInt(BigDiv(maxTarget, target))

\* the inner try block: target from exponent and mantissa, then the ratio
DifficultyOfTarget(exponent, mantissa) ==
  LET target == IF exponent <= 3
                THEN BigShr(BigInt(mantissa), 8 * (3 - exponent))
                ELSE BigShl(BigInt(mantissa), 8 * (exponent - 3))
      maxTarget == BigShl(BigInt(65535), 208)
  IN IF target = "0" THEN "0"
     ELSE LET q == BigDiv(maxTarget, target)
          IN IF q = "RangeError" THEN "0"      \* catch (error) { return 0 }
             ELSE NumberOfBigInt(q)

\* from the hex string bitsHex on: parse, split, guards, genesis shortcut
DifficultyOfBitsHex(bitsHex) ==
  LET bitsVal == parseInt16(bitsHex)
      exponent == Sar24(bitsVal)
      mantissa == And00FFFFFF(bitsVal)
  IN IF IsNaN(bitsVal) THEN "0"
     ELSE IF mantissa = 0 \/ exponent = 0 THEN "0"
     ELSE IF bitsHex = "0x1d00ffff" THEN "1"
     ELSE DifficultyOfTarget(exponent, mantissa)

\* bits to its hex string
BitsHexOf(bits) ==
  IF typeof(bits) = "string"
  THEN IF startsWith(bits.s, "0x") THEN bits.s ELSE "0x" \o bits.s
  ELSE IF typeof(bits) = "number"
  THEN "0x" \o padStart(NumToString16(bits), 8, "0")
  ELSE "invalid"

\* mutant of ExtractBits: nBits is tried before bits_hex
ExtractBitsNBitsFirst(blockData) ==
  LET first == OrElse(Get(blockData, "bits"),
                      IF Truthy(Get(blockData, "prev_block"))
                      THEN Get(blockData, "bits") ELSE Null)
  IN IF ~Truthy(first)
     THEN OrElse(OrElse(Get(blockData, "bits"), Get(blockData, "nBits")),
                 Get(blockData, "bits_hex"))
     ELSE first

\* the bits field of a block object, with the alternate field names
ExtractBits(blockData) ==
  LET first == OrElse(Get(blockData, "bits"),
                      IF Truthy(Get(blockData, "prev_block"))
                      THEN Get(blockData, "bits") ELSE Null)
  IN IF ~Truthy(first)
     THEN OrElse(OrElse(Get(blockData, "bits"), Get(blockData, "bits_hex")),
                 Get(blockData, "nBits"))
     ELSE first

calculateDifficulty(blockData) ==
  IF blockData.t = "null" \/ blockData.t = "undefined" THEN "0"
  ELSE LET isObject == typeof(blockData) = "object"
           bits == IF isObject THEN ExtractBits(blockData) ELSE blockData
       IN IF isObject /\ ~Truthy(bits) THEN "0"
          ELSE IF typeof(bits) \notin {"string", "number"} THEN "0"
          ELSE DifficultyOfBitsHex(BitsHexOf(bits))

-----------------------------------------------------------------------------
(* identifyMiner: the static tables                                        *)

\* minerSignatures, in the order of Object.entries
minerSignatures ==
  << [name |-> "Foundry USA", signatures |-> <<"Foundry USA", "/Foundry/", "foundry.com">>],
     [name |-> "F2Pool", signatures |-> <<"F2Pool", "/F2Pool/", "f2pool.com">>],
     [name |-> "AntPool", signatures |-> <<"AntPool", "/AntPool/", "antpool.com">>],
     [name |-> "Binance Pool",
      signatures |-> <<"Binance Pool", "/Binance/", "binancepool", "binance.com">>],
     [name |-> "ViaBTC", signatures |-> <<"ViaBTC", "/ViaBTC/", "viabtc.com">>],
     [name |-> "SlushPool",
      signatures |-> <<"SlushPool", "slushpool.com", "braiins.com", "/slush/">>],
     [name |-> "Poolin", signatures |-> <<"Poolin", "/Poolin/", "poolin.com">>],
     [name |-> "BTC.com", signatures |-> <<"BTC.com", "/BTC.com/", "btc.com">>],
     [name |-> "OKExPool", signatures |-> <<"OKExPool", "okexpool", "okex.com">>],
     [name |-> "1THash", signatures |-> <<"1THash", "1thash.com">>],
     [name |-> "Huobi Pool", signatures |-> <<"Huobi", "huobipool", "huobi.com">>],
     [name |-> "NovaBlock", signatures |-> <<"NovaBlock", "novablock">>],
     [name |-> "MARA Pool", signatures |-> <<"MARA", "Marathon", "marapool">>],
     [name |-> "SBI Crypto", signatures |-> <<"SBI Crypto", "sbicrypto">>],
     [name |-> "Luxor", signatures |-> <<"Luxor", "luxor.tech">>],
     [name |-> "Bitdeer", signatures |-> <<"Bitdeer", "bitdeer.com">>],
     [name |-> "KuCoin Pool", signatures |-> <<"KuCoin", "kucoin.com">>],
     [name |-> "SigmaPool", signatures |-> <<"SigmaPool", "sigmapool.com">>],
     [name |-> "SpiderPool", signatures |-> <<"SpiderPool", "spider">>] >>

\* minerAddresses: the own properties of the object literal
minerAddresses ==
  [a \in {"1KFHE7w8BhaENAswwryaoccDb6qcT6DbYY", "12hRMvP7LKrSC2L9t6JrdgXhj1uVhP7gzh",
          "1CdCUXGx9kvx2uXAQKMiR6mBYAqkrNr3HU", "1PMHA4kRwHGEPFjm3RvYUYvJZ1AEqLXurH",
          "1JwUDjDDQ3FqGRMaNZhB7U44Jg8KFQTvNG", "1CK6KHY6MHgYvmRQ4PAafKYDrg1ejbH1cE",
          "13hQVEstgo4iPQZv9C7VELnLWF7UWtF4Q3", "1Hz96kJKF2HLPGY15JWLB5m9qGNxvt8tHJ",
          "1JLRXD8rjRgQtTS9MvfQALfHgGWau9L9ky", "1GC6HxDvnchDdb5cGkFXsJMZBFRsVMGSXs",
          "1M9iaetiEZZTfmRqWJQfQQ7ERmyLXZh1zz", "1Bf9sZvBHPFGVPX71WX2njhd1NXKv5y7v5",
          "1G8YpbkZd7bySHjpdQbgeyL1gEW9HjuAwt", "1MiningRigSGkAZYkbNpsCLYKhRNYKqqTuX",
          "1KsFhYKLs8qb1GHqrPxHoywNQpet2CtP9t"} |->
     CASE a = "1KFHE7w8BhaENAswwryaoccDb6qcT6DbYY" -> "Foundry USA"
       [] a = "12hRMvP7LKrSC2L9t6JrdgXhj1uVhP7gzh" -> "F2Pool"
       [] a = "1CdCUXGx9kvx2uXAQKMiR6mBYAqkrNr3HU" -> "AntPool"
       [] a = "1PMHA4kRwHGEPFjm3RvYUYvJZ1AEqLXurH" -> "Binance Pool"
       [] a = "1JwUDjDDQ3FqGRMaNZhB7U44Jg8KFQTvNG" -> "ViaBTC"
       [] a = "1CK6KHY6MHgYvmRQ4PAafKYDrg1ejbH1cE" -> "SlushPool"
       [] a = "13hQVEstgo4iPQZv9C7VELnLWF7UWtF4Q3" -> "Poolin"
       [] a = "1Hz96kJKF2HLPGY15JWLB5m9qGNxvt8tHJ" -> "BTC.com"
       [] a = "1JLRXD8rjRgQtTS9MvfQALfHgGWau9L9ky" -> "BTC.com"
       [] a = "1GC6HxDvnchDdb5cGkFXsJMZBFRsVMGSXs" -> "OKExPool"
       [] a = "1M9iaetiEZZTfmRqWJQfQQ7ERmyLXZh1zz" -> "Huobi Pool"
       [] a = "1Bf9sZvBHPFGVPX71WX2njhd1NXKv5y7v5" -> "SBI Crypto"
       [] a = "1G8YpbkZd7bySHjpdQbgeyL1gEW9HjuAwt" -> "Luxor"
       [] a = "1MiningRigSGkAZYkbNpsCLYKhRNYKqqTuX" -> "MARA Pool"
       [] a = "1KsFhYKLs8qb1GHqrPxHoywNQpet2CtP9t" -> "Binance Pool"]

\* minerHexPatterns, in array order
minerHexPatterns ==
  << [pattern |-> "466f756e647279", name |-> "Foundry USA"],
     [pattern |-> "4632506f6f6c", name |-> "F2Pool"],
     [pattern |-> "416e74506f6f6c", name |-> "AntPool"],
     [pattern |-> "42696e616e6365", name |-> "Binance Pool"],
     [pattern |-> "5669614254432f", name |-> "ViaBTC"],
     [pattern |-> "536c757368506f6f6c", name |-> "SlushPool"],
     [pattern |-> "506f6f6c696e", name |-> "Poolin"],
     [pattern |-> "2f4254432e636f6d2f", name |-> "BTC.com"],
     [pattern |-> "2f426974446565722f", name |-> "Bitdeer"],
     [pattern |-> "2f4c75786f722f", name |-> "Luxor"],
     [pattern |-> "2f42544343454e5452414c2f", name |-> "BTCC"],
     [pattern |-> "6d6172617468", name |-> "MARA Pool"],
     [pattern |-> "4b75636f696e", name |-> "KuCoin Pool"],
     [pattern |-> "7370696465", name |-> "SpiderPool"],
     [pattern |-> "2f466f756e6472792f", name |-> "Foundry USA"],
     [pattern |-> "2f4632506f6f6c2f", name |-> "F2Pool"],
     [pattern |-> "2f416e74506f6f6c2f", name |-> "AntPool"],
     [pattern |-> "2f42696e616e63652f", name |-> "Binance Pool"] >>

\* the properties every object literal inherits from Object.prototype
ObjectPrototypeKeys ==
  {"constructor", "toString", "toLocaleString", "valueOf", "hasOwnProperty",
   "isPrototypeOf", "propertyIsEnumerable", "__proto__", "__defineGetter__",
   "__defineSetter__", "__lookupGetter__", "__lookupSetter__"}

\* a table kept between the calls, in which a call that found no miner has
\* entered the addresses it met under a generic label
LookupAddressLearning(key) ==
  IF key.t # "string" THEN ""
  ELSE IF key.s \in DOMAIN minerAddresses THEN minerAddresses[key.s]
  ELSE IF key.s \in ObjectPrototypeKeys THEN "[Object.prototype." \o key.s \o "]"
  ELSE IF earlier.fn = "identifyMiner" /\ earlier.result = "Unknown Miner"
  THEN "Mining Pool"
  ELSE ""

\* minerAddresses[key]: an own property, else an inherited one (a function
\* or object, written here by a name in brackets), else undefined ("").  The
\* table is a constant of the call: identifyMiner builds it anew every time.
LookupAddress(key) ==
  IF key.t # "string" THEN ""
  ELSE IF key.s \in DOMAIN minerAddresses THEN minerAddresses[key.s]
  ELSE IF key.s \in ObjectPrototypeKeys THEN "[Object.prototype." \o key.s \o "]"
  ELSE ""

-----------------------------------------------------------------------------
(* identifyMiner: the passes                                               *)

NoMatch == ""
TypeError == "TypeError"

\* the raw hex pass scanning the array from its end
RECURSIVE HexPassLast(_, _)
HexPassLast(coinbaseDataLower, i) ==
  LET j == Len(minerHexPatterns) + 1 - i
  IN IF i > Len(minerHexPatterns) THEN NoMatch
     ELSE IF includes(coinbaseDataLower, toLowerCase(minerHexPatterns[j].pattern))
     THEN minerHexPatterns[j].name
     ELSE HexPassLast(coinbaseDataLower, i + 1)

\* the raw hex pass: the first pattern, in array order, that the script holds
RECURSIVE HexPass(_, _)
HexPass(coinbaseDataLower, i) ==
  IF i > Len(minerHexPatterns) THEN NoMatch
  ELSE IF includes(coinbaseDataLower, toLowerCase(minerHexPatterns[i].pattern))
  THEN minerHexPatterns[i].name
  ELSE HexPass(coinbaseDataLower, i + 1)

\* the characters with the codes 32..126; a string here cannot hold the grave
\* accent (code 96), \t stands for it
Printable ==
  " !\"#$%&'()*+,-./0123456789:;<=>?@ABCDEFGHIJKLMNOPQRSTUVWXYZ[\\]^_\tabcdefghijklmnopqrstuvwxyz{|}~"

fromCharCode(code) == CharAt(Printable, code - 31)

\* one step of the decoding loop: the character of a pair, if printable
DecodePair(hexByte) ==
  LET charCode == parseInt16(hexByte)
  IN IF ~IsNaN(charCode) /\ charCode.hi = 0 /\ charCode.lo >= 32 /\ charCode.lo <= 126
     THEN fromCharCode(charCode.lo) ELSE ""

\* the decoding loop left at the first pair that is no number
RECURSIVE AsciiHintAborting(_)
AsciiHintAborting(s) ==
  IF Len(s) = 0 THEN ""
  ELSE IF IsNaN(parseInt16(SubSeq(s, 1, IF Len(s) < 2 THEN Len(s) ELSE 2))) THEN ""
  ELSE IF Len(s) <= 2 THEN DecodePair(s)
  ELSE DecodePair(SubSeq(s, 1, 2)) \o AsciiHintAborting(SubSeq(s, 3, Len(s)))

\* asciiHint: the pairs at the offsets 0, 2, 4, ...; the last may be one
\* character long
RECURSIVE AsciiHint(_)
AsciiHint(s) ==
  IF Len(s) = 0 THEN ""
  ELSE IF Len(s) <= 2 THEN DecodePair(s)
  ELSE LET half == 2 * (((Len(s) + 1) \div 2) \div 2)
       IN AsciiHint(SubSeq(s, 1, half)) \o AsciiHint(SubSeq(s, half + 1, Len(s)))

\* does asciiLower hold one of the signatures k.. of a pool
RECURSIVE HasSignature(_, _, _)
HasSignature(asciiLower, signatures, k) ==
  IF k > Len(signatures) THEN FALSE
  ELSE IF includes(asciiLower, toLowerCase(signatures[k])) THEN TRUE
  ELSE HasSignature(asciiLower, signatures, k + 1)

\* the decoded ASCII pass: the first pool, in table order, with a signature
RECURSIVE SignaturePass(_, _)
SignaturePass(asciiLower, p) ==
  IF p > Len(minerSignatures) THEN NoMatch
  ELSE IF HasSignature(asciiLower, minerSignatures[p].signatures, 1)
  THEN minerSignatures[p].name
  ELSE SignaturePass(asciiLower, p + 1)

AsciiPass(coinbaseDataLower) ==
  LET asciiHint == AsciiHint(coinbaseDataLower)
  IN IF asciiHint # "" THEN SignaturePass(toLowerCase(asciiHint), 1) ELSE NoMatch

\* the loop over coinbaseTx.out; reading addr of null or undefined raises
RECURSIVE ScanOutputs(_, _)
ScanOutputs(out, i) ==
  IF i > Len(out) THEN NoMatch
  ELSE IF out[i].t \in {"null", "undefined"} THEN TypeError
  ELSE LET addr == Get(out[i], "addr")
       IN IF Truthy(addr) /\ LookupAddress(addr) # ""
          THEN LookupAddress(addr)
          ELSE ScanOutputs(out, i + 1)

\* the block-context pass; reading out of a null coinbaseTx raises
AddressPass(rawBlockData) ==
  IF /\ Truthy(rawBlockData) /\ typeof(rawBlockData) = "object"
     /\ Truthy(Get(rawBlockData, "tx")) /\ isArray(Get(rawBlockData, "tx"))
     /\ Len(Get(rawBlockData, "tx").items) > 0
  THEN LET coinbaseTx == Get(rawBlockData, "tx").items[1]
       IN IF coinbaseTx.t \in {"null", "undefined"} THEN TypeError
          ELSE LET out == Get(coinbaseTx, "out")
               IN IF Truthy(out) /\ isArray(out) /\ Len(out.items) > 0
                  THEN ScanOutputs(out.items, 1)
                  ELSE NoMatch
  ELSE NoMatch

identifyMiner(coinbaseData, rawBlockDataArg) ==
  LET rawBlockData == IF rawBlockDataArg.t = "undefined" THEN Null ELSE rawBlockDataArg
      isScript == Truthy(coinbaseData) /\ typeof(coinbaseData) = "string"
      coinbaseDataLower == toLowerCase(coinbaseData.s)
      byHex == IF isScript THEN HexPass(coinbaseDataLower, 1) ELSE NoMatch
      byAscii == IF isScript THEN AsciiPass(coinbaseDataLower) ELSE NoMatch
      byAddress == AddressPass(rawBlockData)
  IN IF ~Truthy(coinbaseData) /\ ~Truthy(rawBlockData) THEN "Unknown Miner"
     ELSE IF byHex # NoMatch THEN byHex
     ELSE IF byAscii # NoMatch THEN byAscii
     ELSE IF byAddress = TypeError THEN "Unknown Miner"   \* catch (error)
     ELSE IF byAddress # NoMatch THEN byAddress
     ELSE IF isScript /\ includes(coinbaseDataLower, "706f6f6c") THEN "Mining Pool"
     ELSE "Unknown Miner"

-----------------------------------------------------------------------------
(* Numbers of the formatters.  An integer number is a Num; a number with   *)
(* a fraction is kept as X / 2^K with X a hex numeral, which is exact for  *)
(* every double met here.                                                  *)

\* what a call does: return a string, or raise an error
Return(s) == [returns |-> s]
Throw(e) == [throws |-> e]

IsNegative(v) == v.hi < 0 \/ v.lo < 0
Abs(v) == IF IsNegative(v) THEN Num(0 - v.hi, 0 - v.lo) ELSE v

\* the numeral h times k, 0 <= k < 2^24
BigTimes(h, k) ==
  LET p == MulSmall(h, k, 0)
  IN StripZeros(SmallToHex(p.carry) \o p.digits)

\* the numeral h times 10^f
RECURSIVE TimesPow10(_, _)
TimesPow10(h, f) ==
  IF f = 0 THEN h
  ELSE LET tenfold == BigTimes(h, 10) IN After(tenfold, TimesPow10(tenfold, f - 1))

RECURSIVE DecimalSmall(_)
DecimalSmall(n) ==
  IF n < 10 THEN HexDigit(n) ELSE DecimalSmall(n \div 10) \o HexDigit(n % 10)

\* the decimal digits of a hex numeral
RECURSIVE DecimalOfHex(_)
DecimalOfHex(h) ==
  IF Len(h) <= 6 THEN DecimalSmall(SmallOfHex(h, 0))
  ELSE LET d == ShortDiv(h, 10000, 0)
       IN DecimalOfHex(StripZeros(d.q)) \o padStart(DecimalSmall(d.rem), 4, "0")

\* String(v) of an integer number or NaN
NumberToString(v) ==
  IF IsNaN(v) THEN "NaN"
  ELSE (IF IsNegative(v) THEN "-" ELSE "") \o DecimalOfHex(NumToString16(Abs(v)))

\* the digits of a decimal string as a number
RECURSIVE ParseDecimal(_, _)
ParseDecimal(s, acc) ==
  IF s = "" THEN acc
  ELSE LET low == acc.lo * 10 + HexVal(CharAt(s, 1))
       IN ParseDecimal(Tail(s), Num(acc.hi * 10 + (low \div 65536), low % 65536))

IsDecimal(s) == \A i \in 1..Len(s) : HexVal(CharAt(s, i)) \in 0..9

\* ToNumber: of a string, for the empty string, a run of decimal digits and
\* a text that is no numeric literal; of a plain object, NaN
ToNumber(v) ==
  CASE v.t = "number" -> v
    [] v.t = "null" -> Num(0, 0)
    [] v.t = "boolean" -> IF v.b THEN Num(0, 1) ELSE Num(0, 0)
    [] v.t = "string" -> IF IsDecimal(v.s) THEN ParseDecimal(v.s, Num(0, 0)) ELSE NaN
    [] OTHER -> NaN

\* the double nearest to s / 100000000 for an integer s > 0 written as the
\* numeral h: the quotient is taken with 55 or 56 bits and a sticky bit for
\* the remainder, and rounded to 53 bits, ties to even
DivideBy100000000(h) ==
  LET b == StripZeros(HexToBin(h))
      K == 82 - Len(b)
      d1 == ShortDiv(BinToHex(b \o Zeros(K)), 10000, 0)
      d2 == ShortDiv(StripZeros(d1.q), 10000, 0)
      sticky == IF d1.rem # 0 \/ d2.rem # 0 THEN "1" ELSE "0"
      q == StripZeros(HexToBin(d2.q)) \o sticky
      X == NumberOfBigInt(StripZeros(BinToHex(q)))
  IN After(b, After(d1, After(d2, After(q, After(X, [X |-> X, K |-> K + 1])))))

\* the integer part of y / 2^K
RoundShiftDown(y, K) ==
  LET b == StripZeros(HexToBin(y))
  IN StripZeros(BinToHex(IF Len(b) <= K THEN "0" ELSE SubSeq(b, 1, Len(b) - K)))

\* the integer nearest to y / 2^K, the larger one of two
RoundShift(y, K) ==
  LET b == StripZeros(HexToBin(y))
      whole == IF Len(b) <= K THEN "0" ELSE SubSeq(b, 1, Len(b) - K)
      half == K >= 1 /\ Len(b) >= K /\ CharAt(b, Len(b) - K + 1) = "1"
  IN StripZeros(BinToHex(IF half THEN BinInc(whole) ELSE whole))

\* Number.prototype.toFixed(f) of x = X / 2^K >= 0
toFixed(X, K, f) ==
  LET scaled == TimesPow10(X, f)
      rounded == RoundShift(scaled, K)
      n == DecimalOfHex(rounded)
      digits == padStart(n, f + 1, "0")
  IN After(scaled, After(rounded, After(n,
       IF f = 0 THEN digits
       ELSE SubSeq(digits, 1, Len(digits) - f) \o "."
              \o SubSeq(digits, Len(digits) - f + 1, Len(digits)))))

-----------------------------------------------------------------------------
(* formatBtcAmount                                                         *)

formatBtcAmount(satoshis) ==
  IF satoshis.t \in {"undefined", "null"} THEN Return("Unknown")
  ELSE LET n == ToNumber(satoshis)
       IN IF IsNaN(n) THEN Return("NaN BTC")
          ELSE IF n = Num(0, 0) THEN Return("0.00000000 BTC")
          ELSE LET btc == DivideBy100000000(NumToString16(Abs(n)))
               IN After(btc, Return((IF IsNegative(n) THEN "-" ELSE "")
                                      \o toFixed(btc.X, btc.K, 8) \o " BTC"))

-----------------------------------------------------------------------------
(* formatFileSize                                                          *)

units == <<"B", "KB", "MB", "GB">>

\* 1024^k as a number, k <= 4
Pow1024(k) == CASE k = 0 -> Num(0, 1) [] k = 1 -> Num(0, 1024) [] k = 2 -> Num(16, 0)
                [] k = 3 -> Num(16384, 0) [] k = 4 -> Num(16777216, 0)

\* a >= b for a number a and a positive integer b
GreaterEq(a, b) ==
  /\ ~IsNaN(a) /\ ~IsNegative(a)
  /\ a.hi > b.hi \/ (a.hi = b.hi /\ a.lo >= b.lo)

\* the unit by a loop that also leaves at 1023.995 and above, where two
\* decimals read 1024.00
RECURSIVE ScaleLoopByShownValue(_, _)
ScaleLoopByShownValue(n, unitIndex) ==
  IF /\ unitIndex < Len(units) - 1
     /\ \/ GreaterEq(n, Pow1024(unitIndex + 1))
        \/ unitIndex > 0 /\ toFixed(NumToString16(n), 10 * unitIndex, 2) = "1024.00"
  THEN ScaleLoopByShownValue(n, unitIndex + 1)
  ELSE unitIndex

\* the while loop, for an integer number n: size is n / 1024^unitIndex
RECURSIVE ScaleLoop(_, _)
ScaleLoop(n, unitIndex) ==
  IF GreaterEq(n, Pow1024(unitIndex + 1)) /\ unitIndex < Len(units) - 1
  THEN ScaleLoop(n, unitIndex + 1)
  ELSE unitIndex

formatFileSize(bytes) ==
  IF bytes.t \in {"undefined", "null"} THEN Return("Unknown")
  ELSE LET n == ToNumber(bytes)
           unitIndex == ScaleLoop(n, 0)
       IN IF bytes.t # "number" /\ unitIndex = 0
          THEN Throw("TypeError")       \* size.toFixed is not a function
          ELSE IF IsNaN(n) THEN Return("NaN B")
          ELSE Return((IF IsNegative(n) THEN "-" ELSE "")
                        \o toFixed(NumToString16(Abs(n)), 10 * unitIndex,
                                   IF unitIndex > 0 THEN 2 ELSE 0)
                        \o " " \o units[unitIndex + 1])

-----------------------------------------------------------------------------
(* truncateMiddle                                                          *)

\* s.substring(a, b)
substringRange(s, a, b) ==
  LET clamp(x) == IF x < 0 THEN 0 ELSE IF x > Len(s) THEN Len(s) ELSE x
      from == IF clamp(a) <= clamp(b) THEN clamp(a) ELSE clamp(b)
      to == IF clamp(a) <= clamp(b) THEN clamp(b) ELSE clamp(a)
  IN SubSeq(s, from + 1, to)

\* truncateMiddle keeping endChars characters that follow the first ones
truncateMiddleHead(str, startCharsArg, endCharsArg) ==
  LET startChars == IF startCharsArg.t = "undefined" THEN 6 ELSE ToInt(startCharsArg)
      endChars == IF endCharsArg.t = "undefined" THEN 6 ELSE ToInt(endCharsArg)
  IN IF ~Truthy(str) THEN Return("")
     ELSE IF str.t # "string" THEN Throw("TypeError")
     ELSE IF Len(str.s) <= startChars + endChars THEN Return(str.s)
     ELSE Return(substringRange(str.s, 0, startChars) \o "..."
                   \o substringRange(str.s, startChars, startChars + endChars))

truncateMiddle(str, startCharsArg, endCharsArg) ==
  LET startChars == IF startCharsArg.t = "undefined" THEN 6 ELSE ToInt(startCharsArg)
      endChars == IF endCharsArg.t = "undefined" THEN 6 ELSE ToInt(endCharsArg)
  IN IF ~Truthy(str) THEN Return("")
     ELSE IF str.t # "string"
     THEN Throw("TypeError")            \* str.substring is not a function
     ELSE IF Len(str.s) <= startChars + endChars THEN Return(str.s)
     ELSE Return(substringRange(str.s, 0, startChars) \o "..."
                   \o substringRange(str.s, Len(str.s) - endChars, Len(str.s)))

-----------------------------------------------------------------------------
(* formatTimeAgo                                                           *)

intervals ==
  << [label |-> "year", seconds |-> 31536000],
     [label |-> "month", seconds |-> 2592000],
     [label |-> "week", seconds |-> 604800],
     [label |-> "day", seconds |-> 86400],
     [label |-> "hour", seconds |-> 3600],
     [label |-> "minute", seconds |-> 60],
     [label |-> "second", seconds |-> 1] >>

\* the loop over the intervals i.. with the plural ending for every count
RECURSIVE IntervalLoopAlwaysPlural(_, _)
IntervalLoopAlwaysPlural(secondsAgo, i) ==
  IF i > Len(intervals) THEN "Just now"
  ELSE LET count == secondsAgo \div intervals[i].seconds
       IN IF count > 0
          THEN DecimalSmall(count) \o " " \o intervals[i].label \o "s ago"
          ELSE IntervalLoopAlwaysPlural(secondsAgo, i + 1)

\* the loop over the intervals i..; Math.floor(secondsAgo / seconds) of two
\* integers below 2^31 is the integer quotient rounded down
RECURSIVE IntervalLoop(_, _)
IntervalLoop(secondsAgo, i) ==
  IF i > Len(intervals) THEN "Just now"
  ELSE LET count == secondsAgo \div intervals[i].seconds
       IN IF count > 0
          THEN DecimalSmall(count) \o " " \o intervals[i].label
                 \o (IF count > 1 THEN "s" ELSE "") \o " ago"
          ELSE IntervalLoop(secondsAgo, i + 1)

\* now is Math.floor(Date.now() / 1000)
formatTimeAgo(timestamp, now) ==
  IF ~Truthy(timestamp) THEN Return("Unknown")
  ELSE LET n == ToNumber(timestamp)
       IN IF IsNaN(n) THEN Return("Just now")
          ELSE Return(IntervalLoop(ToInt(now) - ToInt(n), 1))

-----------------------------------------------------------------------------
(* formatNumber                                                            *)

\* the group separator of the locale of the host
GroupSeparator(locale) == IF locale = "de-DE" THEN "." ELSE ","

RECURSIVE Grouped(_, _)
Grouped(digits, separator) ==
  IF Len(digits) <= 3 THEN digits
  ELSE Grouped(SubSeq(digits, 1, Len(digits) - 3), separator) \o separator
         \o SubSeq(digits, Len(digits) - 2, Len(digits))

\* value.toLocaleString() of a number, a string, a boolean, a plain object
formatNumber(number, locale) ==
  IF number.t \in {"undefined", "null"} THEN Return("Unknown")
  ELSE CASE number.t = "number" ->
              IF IsNaN(number) THEN Return("NaN")
              ELSE Return((IF IsNegative(number) THEN "-" ELSE "")
                            \o Grouped(NumberToString(Abs(number)), GroupSeparator(locale)))
         [] number.t = "string" -> Return(number.s)
         [] number.t = "boolean" -> Return(IF number.b THEN "true" ELSE "false")
         [] OTHER -> Return("[object Object]")

-----------------------------------------------------------------------------
(* formatTimestamp                                                         *)

\* year, month and day of a day number counted from 1970-01-01
DateOfDay(day) ==
  LET z == day + 719468
      era == z \div 146097
      doe == z - era * 146097
      yoe == (doe - doe \div 1460 + doe \div 36524 - doe \div 146096) \div 365
      doy == doe - (365 * yoe + yoe \div 4 - yoe \div 100)
      mp == (5 * doy + 2) \div 153
      month == IF mp < 10 THEN mp + 3 ELSE mp - 9
  IN [year |-> yoe + era * 400 + (IF month <= 2 THEN 1 ELSE 0),
      month |-> month,
      date |-> doy - (153 * mp + 2) \div 5 + 1]

\* offset: the minutes the local time of the host is ahead of UTC
formatTimestamp(timestamp, offset) ==
  IF ~Truthy(timestamp) THEN Return("Unknown")
  ELSE LET n == ToNumber(timestamp)
       IN IF IsNaN(n) THEN Return("NaN-NaN-NaN NaN:NaN")
          ELSE LET local == ToInt(n) + 60 * offset
                   d == DateOfDay(local \div 86400)
                   two(x) == padStart(DecimalSmall(x), 2, "0")
               IN Return(DecimalSmall(d.year) \o "-" \o two(d.month) \o "-" \o two(d.date)
                           \o " " \o two((local % 86400) \div 3600)
                           \o ":" \o two((local % 3600) \div 60))

-----------------------------------------------------------------------------
(* Inputs of calculateDifficulty                                           *)

\* mantissas 0..MaxSmallMantissa are drawn besides the boundary mantissas
MaxSmallMantissa == 2

ExponentBytes == 0..255

\* 7, 0xff, 0x100, 0xffff, 0x10000, 0x015f53, 0x7fffff, 0x800000,
\* 0xffff00, 0xffff01, 0xffffff
Mantissas ==
  (0..MaxSmallMantissa) \cup
  {7, 255, 256, 65535, 65536, 89939, 8388607, 8388608,
   16776960, 16776961, 16777215}

RECURSIVE FixedHex(_, _)
FixedHex(n, width) ==
  IF width = 0 THEN "" ELSE FixedHex(n \div 16, width - 1) \o HexDigit(n % 16)

\* the bits value e * 2^24 + m as a number and as 8 hex digits
BitsNumber(e, m) == Num(e * 256 + (m \div 65536), m % 65536)
BitsPadded(e, m) == FixedHex(e, 2) \o FixedHex(m, 6)
BitsUnpadded(e, m) == StripZeros(BitsPadded(e, m))

\* a second bits value, 0x1a015f53, for the fields that must be ignored
OtherBits == Num(6657, 24403)

FormNames ==
  {"number", "0xhex", "hex", "0xhex8", "hex8", "0xHEX", "HEX",
   "{bits:number}", "{bits:0xhex}", "{bits:hex}", "{bits:HEX,prev_block}",
   "{bits_hex:hex}", "{nBits:number}", "{bits_hex:number,nBits:other}",
   "{bits:number,bits_hex:other,nBits:other}"}

BitsForm(e, m, form) ==
  LET n == BitsNumber(e, m)
      h == BitsUnpadded(e, m)
      h8 == BitsPadded(e, m)
  IN CASE form = "number" -> n
       [] form = "0xhex" -> Str("0x" \o h)
       [] form = "hex" -> Str(h)
       [] form = "0xhex8" -> Str("0x" \o h8)
       [] form = "hex8" -> Str(h8)
       [] form = "0xHEX" -> Str("0x" \o toUpperCase(h))
       [] form = "HEX" -> Str(toUpperCase(h))
       [] form = "{bits:number}" -> Obj([bits |-> n])
       [] form = "{bits:0xhex}" -> Obj([bits |-> Str("0x" \o h)])
       [] form = "{bits:hex}" -> Obj([bits |-> Str(h)])
       [] form = "{bits:HEX,prev_block}" ->
            Obj([bits |-> Str(toUpperCase(h)), prev_block |-> Str("00ab")])
       [] form = "{bits_hex:hex}" -> Obj([bits_hex |-> Str(h)])
       [] form = "{nBits:number}" -> Obj([nBits |-> n])
       [] form = "{bits_hex:number,nBits:other}" ->
            Obj([bits_hex |-> n, nBits |-> OtherBits])
       [] form = "{bits:number,bits_hex:other,nBits:other}" ->
            Obj([bits |-> n, bits_hex |-> OtherBits, nBits |-> OtherBits])

\* inputs that carry no bits value
MalformedInputs ==
  [null |-> Null,
   undefined |-> Undefined,
   zero |-> Num(0, 0),
   nan |-> NaN,
   true |-> Bool(TRUE),
   false |-> Bool(FALSE),
   emptyObject |-> Obj(<<>>),
   bitsNull |-> Obj([bits |-> Null]),
   bitsZero |-> Obj([bits |-> Num(0, 0)]),
   bitsEmpty |-> Obj([bits |-> Str("")]),
   bitsTrue |-> Obj([bits |-> Bool(TRUE)]),
   bitsObject |-> Obj([bits |-> Obj(<<>>)]),
   otherField |-> Obj([hash |-> Str("00ab")]),
   invalid |-> Str("invalid"),
   empty |-> Str(""),
   prefixOnly |-> Str("0x"),
   xyz |-> Str("xyz"),
   leadingLetter |-> Str("g1d00ffff"),
   prefixedLetters |-> Str("0xzz"),
   minus |-> Str("-1d00ffff"),
   blank |-> Str(" 1d00ffff"),
   upperPrefix |-> Str("0X1d00ffff"),
   letterInside |-> Str("1dzz00ffff"),
   trailingLetters |-> Str("1d00ffffzz"),
   prefixedTrailing |-> Str("0x1a015f53 junk")]

-----------------------------------------------------------------------------
(* Inputs of identifyMiner                                                 *)

MaxPieces == 3
MaxOutputs == 2
MaxTransactions == 2

\* fragments of coinbase scripts: the bytes of "Foundry", "Poolin",
\* "foundry.com", "f2pool.com", "/slush/", "viabtc.com", "pool", "marath"
\* (upper-case digits), "/BTCCENTRAL/", "mined"; two characters that are
\* not hex digits; a single digit, which shifts the pairs after it
ScriptPieces ==
  {"466f756e647279", "506f6f6c696e", "666f756e6472792e636f6d",
   "6632706f6f6c2e636f6d", "2f736c7573682f", "7669616274632e636f6d",
   "706f6f6c", "6D6172617468", "2f42544343454e5452414c2f", "6d696e6564",
   "zz", "0"}

RECURSIVE ScriptsOf(_)
ScriptsOf(n) ==
  IF n = 0 THEN {""}
  ELSE ScriptsOf(n - 1) \cup {s \o p : s \in ScriptsOf(n - 1), p \in ScriptPieces}

\* coinbase arguments that are no script
NonScripts == {Null, Undefined, Num(0, 0), Num(0, 123), Bool(TRUE)}

\* the coinbase arguments passed together with a block
BlockScripts ==
  NonScripts \cup {Str(s) : s \in {"", "466f756e647279", "2f736c7573682f",
                                   "6632706f6f6c2e636f6d", "706f6f6c", "6d696e6564"}}

Output(addr) == Obj([addr |-> Str(addr), value |-> Num(9536, 0)])

\* outputs: none, without an address, paying SlushPool, paying F2Pool,
\* paying an unlisted address, and with an address that names a property
\* of every object
Outputs ==
  {Null, Obj([value |-> Num(0, 0)]),
   Output("1CK6KHY6MHgYvmRQ4PAafKYDrg1ejbH1cE"),
   Output("12hRMvP7LKrSC2L9t6JrdgXhj1uVhP7gzh"),
   Output("1A1zP1eP5QGefi2DMPTfTL5SLmv7DivfNa"),
   Output("constructor")}

RECURSIVE ListsOf(_, _)
ListsOf(S, n) ==
  IF n = 0 THEN {<<>>}
  ELSE ListsOf(S, n - 1) \cup {Append(l, x) : l \in ListsOf(S, n - 1), x \in S}

Transaction(out) == Obj([hash |-> Str("ab"), out |-> out])

\* the first transaction of a block
FirstTransactions ==
  {Null, Obj([hash |-> Str("ab")]), Transaction(Str("none"))}
    \cup {Transaction(Arr(l)) : l \in ListsOf(Outputs, MaxOutputs)}

\* the transactions after the first
LaterTransactions ==
  {Null, Transaction(Arr(<<Output("12hRMvP7LKrSC2L9t6JrdgXhj1uVhP7gzh")>>))}

TransactionLists ==
  {<<>>} \cup {<<t>> \o l : t \in FirstTransactions,
                            l \in ListsOf(LaterTransactions, MaxTransactions - 1)}

Blocks ==
  {Null, Undefined, Arr(<<>>), Obj([hash |-> Str("00ab")]),
   Obj([hash |-> Str("00ab"), tx |-> Str("none")])}
    \cup {Obj([hash |-> Str("00ab"), tx |-> Arr(l)]) : l \in TransactionLists}

-----------------------------------------------------------------------------
(* TransactionItem: the values derived from a transaction (useMemo)        *)

\* a + b and a - b of two integer numbers
Plus(a, b) == IntNum(ToInt(a) + ToInt(b))
Minus(a, b) == IntNum(ToInt(a) - ToInt(b))

\* o?.k
OptionalGet(o, k) == IF o.t \in {"null", "undefined"} THEN Undefined ELSE Get(o, k)

\* a[i] of an array (undefined past its end) and a.length
At(a, i) == IF a.t = "array" /\ i < Len(a.items) THEN a.items[i + 1] ELSE Undefined
Length(a) == IF a.t = "array" THEN Len(a.items) ELSE 0

\* inputs.reduce((sum, input) => sum + (input.prev_out?.value || 0), 0)
RECURSIVE ReducePrevOutValues(_, _, _)
ReducePrevOutValues(inputs, i, sum) ==
  IF i > Len(inputs) THEN sum
  ELSE ReducePrevOutValues(inputs, i + 1,
         Plus(sum, OrElse(OptionalGet(Get(inputs[i], "prev_out"), "value"), Num(0, 0))))

\* list.reduce((sum, output) => sum + (output.value || 0), 0)
RECURSIVE ReduceValues(_, _, _)
ReduceValues(list, i, sum) ==
  IF i > Len(list) THEN sum
  ELSE ReduceValues(list, i + 1, Plus(sum, OrElse(Get(list[i], "value"), Num(0, 0))))

totalInput(transaction) ==
  LET inputs == Get(transaction, "inputs")
  IN IF Truthy(inputs) /\ isArray(inputs)
     THEN ReducePrevOutValues(inputs.items, 1, Num(0, 0))
     ELSE Num(0, 0)

\* totalOutput adding the two lists of outputs together
totalOutputOfBothLists(transaction) ==
  LET out == Get(transaction, "out")
      outputs == Get(transaction, "outputs")
      ofOut == IF Truthy(out) /\ isArray(out)
               THEN ReduceValues(out.items, 1, Num(0, 0)) ELSE Num(0, 0)
  IN IF Truthy(outputs) /\ isArray(outputs)
     THEN ReduceValues(outputs.items, 1, ofOut)
     ELSE ofOut

totalOutput(transaction) ==
  LET out == Get(transaction, "out")
      outputs == Get(transaction, "outputs")
  IN IF Truthy(out) /\ isArray(out)
     THEN ReduceValues(out.items, 1, Num(0, 0))
     ELSE IF Truthy(outputs) /\ isArray(outputs)
     THEN ReduceValues(outputs.items, 1, Num(0, 0))
     ELSE Num(0, 0)

\* the fee with a negative difference raised to 0
feeClamped(transaction) ==
  LET difference == Minus(totalInput(transaction), totalOutput(transaction))
  IN OrElse(Get(transaction, "fee"),
            IF ToInt(totalInput(transaction)) > 0 /\ ToInt(difference) > 0
            THEN difference ELSE Num(0, 0))

fee(transaction) ==
  OrElse(Get(transaction, "fee"),
         IF ToInt(totalInput(transaction)) > 0
         THEN Minus(totalInput(transaction), totalOutput(transaction))
         ELSE Num(0, 0))

primaryToAddress(transaction) ==
  LET out == Get(transaction, "out")
      outputs == Get(transaction, "outputs")
      unknown == [addr |-> Str("Unknown Address"), value |-> Num(0, 0)]
  IN IF Truthy(out) /\ Length(out) > 0
     THEN IF Truthy(Get(At(out, 0), "addr"))
          THEN [addr |-> Get(At(out, 0), "addr"),
                value |-> OrElse(Get(At(out, 0), "value"), Num(0, 0))]
          ELSE IF Truthy(Get(At(out, 0), "script"))
          THEN [addr |-> Str("Script Output"),
                value |-> OrElse(Get(At(out, 0), "value"), Num(0, 0))]
          ELSE unknown
     ELSE IF Truthy(outputs) /\ Length(outputs) > 0
     THEN [addr |-> OrElse(Get(At(outputs, 0), "addr"), Str("Unknown Address")),
           value |-> OrElse(Get(At(outputs, 0), "value"), Num(0, 0))]
     ELSE unknown

\* isCoinbase reading the explicit flag only
isCoinbaseByFlagOnly(transaction) == Truthy(Get(transaction, "is_coinbase"))

isCoinbase(transaction) ==
  LET inputs == Get(transaction, "inputs")
  IN \/ Truthy(Get(transaction, "is_coinbase"))
     \/ /\ Truthy(inputs)
        /\ Truthy(At(inputs, 0))
        /\ \/ Truthy(Get(At(inputs, 0), "coinbase"))
           \/ ~Truthy(Get(At(inputs, 0), "prev_out"))

primaryFromAddress(transaction) ==
  LET inputs == Get(transaction, "inputs")
      unknown == [addr |-> Str("Unknown Address"), value |-> Num(0, 0)]
  IN IF isCoinbase(transaction)
     THEN [addr |-> Str("Coinbase (Newly Generated Coins)"),
           value |-> totalOutput(transaction)]
     ELSE IF Truthy(inputs) /\ Length(inputs) > 0
     THEN IF /\ Truthy(Get(At(inputs, 0), "prev_out"))
             /\ Truthy(Get(Get(At(inputs, 0), "prev_out"), "addr"))
          THEN [addr |-> Get(Get(At(inputs, 0), "prev_out"), "addr"),
                value |-> OrElse(Get(Get(At(inputs, 0), "prev_out"), "value"), Num(0, 0))]
          ELSE unknown
     ELSE unknown

\* the object the useMemo callback returns
TransactionItemMemo(transaction) ==
  [totalInput |-> totalInput(transaction),
   totalOutput |-> totalOutput(transaction),
   fee |-> fee(transaction),
   primaryToAddress |-> primaryToAddress(transaction),
   primaryFromAddress |-> primaryFromAddress(transaction)]

-----------------------------------------------------------------------------
(* Inputs of TransactionItem                                               *)

MaxTxInputs == 2
MaxTxOutputs == 2

\* outputs with and without an address, a value, a script
OutputShapes ==
  {Obj([addr |-> Str("bc1qxneh87v5qnkqz5zah6mwcgv4y8qgpkcm5cdlpw"), value |-> IntNum(625000000)]),
   Obj([addr |-> Str("1A1zP1eP5QGefi2DMPTfTL5SLmv7DivfNa"), value |-> IntNum(5)]),
   Obj([addr |-> Str("1A1zP1eP5QGefi2DMPTfTL5SLmv7DivfNa")]),
   Obj([script |-> Str("6a24aa21a9ed"), value |-> IntNum(3)]),
   Obj([value |-> IntNum(2)])}

\* inputs with a previous output (with and without address and value), with
\* a coinbase script, with both, with neither
InputShapes ==
  {Obj([prev_out |-> Obj([addr |-> Str("12c6DSiU4Rq3P4ZxziKxzrL5LmMBrzjrJX"), value |-> IntNum(10)])]),
   Obj([prev_out |-> Obj([value |-> IntNum(4)])]),
   Obj([prev_out |-> Obj([addr |-> Str("12c6DSiU4Rq3P4ZxziKxzrL5LmMBrzjrJX")])]),
   Obj([coinbase |-> Str("03fc350c2f72")]),
   Obj([coinbase |-> Str("03fc350c2f72"),
        prev_out |-> Obj([addr |-> Str("12c6DSiU4Rq3P4ZxziKxzrL5LmMBrzjrJX"), value |-> IntNum(10)])]),
   Obj([sequence |-> IntNum(1)])}

\* a field that is left out of the object
Absent == Undefined

Flags == {Absent, Bool(TRUE), Bool(FALSE)}
Fees == {Absent, IntNum(0), IntNum(7)}
InputLists == {Absent} \cup {Arr(l) : l \in ListsOf(InputShapes, MaxTxInputs)}
OutputLists == {Absent} \cup {Arr(l) : l \in ListsOf(OutputShapes, MaxTxOutputs)}
ShortInputLists == {Absent} \cup {Arr(l) : l \in ListsOf(InputShapes, 1)}
ShortOutputLists == {Absent} \cup {Arr(l) : l \in ListsOf(OutputShapes, 1)}

\* a transaction object with the fields that are not left out
TransactionOf(flag, explicitFee, inputs, out, outputs) ==
  LET all == [hash |-> Str("77af9213"), is_coinbase |-> flag, fee |-> explicitFee,
              inputs |-> inputs, out |-> out, outputs |-> outputs]
      present == {k \in DOMAIN all : all[k] # Absent}
  IN Obj([k \in present |-> all[k]])

-----------------------------------------------------------------------------
(* Inputs of the formatters                                                *)

MaxSmallAmount == 20
MaxSmallBytes == 10
MaxSmallElapsed == 130
MaxChars == 7

\* arguments that are no number: missing, strings with and without digits,
\* a boolean, a plain object
NonNumbers ==
  {Null, Undefined, Str(""), Str("abc"), Str("2048"), Str("500"), Bool(TRUE),
   Obj([hash |-> Str("ab")])}

\* satoshi amounts hi * 65536 + lo: small ones, the amounts around 1 BTC
\* (1525 * 65536 + 57600), 6.25 BTC, 625 BTC, 2000 BTC (3051758 * 65536 is
\* 2000.00012288 BTC), and up to 2^47 - 1
Amounts ==
  {Num(hi, lo) : hi \in {0, 1, 762, 1525, 1526, 9536, 95367, 953674, 3051758,
                        2147483647},
                 lo \in (0..MaxSmallAmount) \cup {57599, 57600, 57601, 65535}}

NegativeAmounts == {Num(0, -1), Num(-1525, -57600), Num(-1883, -52501)}

\* byte counts hi * 65536 + lo around 1024, 1024^2 (hi 16), 1024^3 (hi 16384),
\* 10 GB and 1024^4
ByteCounts ==
  {Num(hi, lo) : hi \in {0, 1, 15, 16, 160, 16383, 16384, 163840, 16777215},
                 lo \in (0..MaxSmallBytes) \cup {1023, 1024, 1029, 1030, 1536, 65535}}

\* the seconds between a timestamp and now: small ones, also in the future,
\* and the seconds around one, two and twelve times every interval
ElapsedSeconds ==
  ((0 - 2)..MaxSmallElapsed)
    \cup {c * intervals[i].seconds + d :
            i \in 1..Len(intervals), c \in {1, 2, 12}, d \in {0 - 1, 0, 1}}

\* Math.floor(Date.now() / 1000): 2025-05-14T12:00:00Z, and an earlier clock
Clocks == {1747224000, 1000000000}

Locales == {"en-US", "de-DE"}

\* the minutes the host's local time is ahead of UTC
Offsets == {0, 120, 0 - 300, 330}

Timestamps ==
  {IntNum(t) : t \in {0, 1, 59, 86399, 86400, 951782400, 1709251199, 1715593855,
                      2000000000, 0 - 1, 0 - 86400}}

GroupedNumbers ==
  {IntNum(n) : n \in {0, 1, 999, 1000, 999999, 1000000, 1234567890, 0 - 1, 0 - 1234567}}
    \cup {Num(2147483647, 65535), NaN}

TruncatedStrings ==
  {Str(s) : s \in {"", "1", "12345", "1234567890", "123456789012", "1234567890123",
                   "1234567890abcdef1234567890abcdef"}}

CharCounts == {Undefined} \cup {IntNum(k) : k \in 0..MaxChars}

-----------------------------------------------------------------------------
(* blockchainService: identifyMinerFromRawBlock                            *)

\* identifyMiner with the output addresses of the block as its context
identifyMinerFromRawBlockWithContext(blockData) ==
  IF \/ ~Truthy(blockData) \/ ~Truthy(Get(blockData, "tx"))
     \/ Length(Get(blockData, "tx")) = 0
  THEN "Unknown Miner"
  ELSE LET coinbaseTx == At(Get(blockData, "tx"), 0)
       IN IF coinbaseTx.t \in {"null", "undefined"} THEN TypeError
          ELSE LET coinbaseInput == IF Truthy(Get(coinbaseTx, "inputs"))
                                    THEN At(Get(coinbaseTx, "inputs"), 0)
                                    ELSE Get(coinbaseTx, "inputs")
                   coinbaseScript == IF Truthy(coinbaseInput)
                                     THEN Get(coinbaseInput, "script") ELSE Str("")
                   label == identifyMiner(coinbaseScript, blockData)
               IN IF label = "" THEN "Mining Pool" ELSE label

\* reading inputs of a null coinbaseTx raises a TypeError
identifyMinerFromRawBlock(blockData) ==
  IF \/ ~Truthy(blockData) \/ ~Truthy(Get(blockData, "tx"))
     \/ Length(Get(blockData, "tx")) = 0
  THEN "Unknown Miner"
  ELSE LET coinbaseTx == At(Get(blockData, "tx"), 0)
       IN IF coinbaseTx.t \in {"null", "undefined"} THEN TypeError
          ELSE LET coinbaseInput == IF Truthy(Get(coinbaseTx, "inputs"))
                                    THEN At(Get(coinbaseTx, "inputs"), 0)
                                    ELSE Get(coinbaseTx, "inputs")
                   coinbaseScript == IF Truthy(coinbaseInput)
                                     THEN Get(coinbaseInput, "script") ELSE Str("")
                   label == identifyMiner(coinbaseScript, Undefined)
               IN IF label = "" THEN "Mining Pool" ELSE label

-----------------------------------------------------------------------------
(* Inputs of identifyMinerFromRawBlock: raw blocks as the rawblock         *)
(* endpoint delivers them, and damaged ones                                *)

\* coinbase scripts: with the bytes of "Foundry", of "f2pool.com", of "pool"
\* and of "mined", empty, and absent
CoinbaseScripts ==
  {Str("466f756e647279"), Str("6632706f6f6c2e636f6d"), Str("706f6f6c"),
   Str("6d696e6564"), Str(""), Undefined}

\* the inputs of a coinbase transaction: absent, none, null, one input
CoinbaseInputs ==
  {Undefined, Arr(<<>>), Arr(<<Null>>)}
    \cup {Arr(<<Obj([script |-> c])>>) : c \in CoinbaseScripts \ {Undefined}}
    \cup {Arr(<<Obj([sequence |-> Num(65535, 65535)])>>)}

\* the outputs of a coinbase transaction: valued outputs without and with the
\* address of a pool
CoinbaseOutputs ==
  {Arr(l) : l \in ListsOf({Obj([value |-> Num(0, 0)]),
                           Output("1CK6KHY6MHgYvmRQ4PAafKYDrg1ejbH1cE"),
                           Output("1A1zP1eP5QGefi2DMPTfTL5SLmv7DivfNa")}, MaxOutputs)}

RawCoinbaseTransactions ==
  {Null} \cup {IF i.t = "undefined" THEN Obj([hash |-> Str("ab"), out |-> o])
               ELSE Obj([hash |-> Str("ab"), inputs |-> i, out |-> o]) :
                 i \in CoinbaseInputs, o \in CoinbaseOutputs}

RawBlocks ==
  {Null, Undefined, Obj([hash |-> Str("00ab")]),
   Obj([hash |-> Str("00ab"), tx |-> Arr(<<>>)])}
    \cup {Obj([hash |-> Str("00ab"), tx |-> Arr(<<t>> \o l)]) :
            t \in RawCoinbaseTransactions,
            l \in {<<>>, <<Transaction(Arr(<<Output("12hRMvP7LKrSC2L9t6JrdgXhj1uVhP7gzh")>>))>>}}

-----------------------------------------------------------------------------
(* Inputs of repeated calls: a few calls of every utility that holds no    *)
(* clock                                                                   *)

SampleCalls ==
  {[fn |-> "calculateDifficulty", args |-> <<x>>] :
     x \in {BitsForm(29, 65535, "0xhex"), BitsForm(26, 89939, "{bits:number}"),
            BitsForm(26, 89939, "number"), Null, Obj([hash |-> Str("00ab")])}}
    \cup {[fn |-> "identifyMiner", args |-> <<c, b>>] :
            c \in {Str(""), Str("466f756e647279"), Str("6d696e6564"), Str("706f6f6c")},
            b \in {Undefined,
                   Obj([hash |-> Str("00ab"),
                        tx |-> Arr(<<Transaction(Arr(<<Output("1A1zP1eP5QGefi2DMPTfTL5SLmv7DivfNa")>>))>>)]),
                   Obj([hash |-> Str("00ab"),
                        tx |-> Arr(<<Transaction(Arr(<<Output("1CK6KHY6MHgYvmRQ4PAafKYDrg1ejbH1cE")>>))>>)])}}
    \cup {[fn |-> "formatBtcAmount", args |-> <<x>>] :
            x \in {Null, Num(0, 1), Num(1525, 57600), Num(0, 0 - 1)}}
    \cup {[fn |-> "formatNumber", args |-> <<x>>] :
            x \in {Undefined, IntNum(999), IntNum(1234567890)}}
    \cup {[fn |-> "formatFileSize", args |-> <<x>>] :
            x \in {Null, IntNum(1023), IntNum(1536), Str("abc")}}
    \cup {[fn |-> "truncateMiddle", args |-> <<x, a, b>>] :
            x \in {Null, Str("12345"), Str("1234567890abcdef1234567890abcdef")},
            a \in {Undefined, IntNum(3)}, b \in {Undefined}}

-----------------------------------------------------------------------------
(* The state machine: a caller invokes one utility at a time               *)

\* no call of a utility has been made, no call of the service is in
\* progress and no component is mounted
Init ==
  /\ fn = "none"
  /\ args = <<>>
  /\ result = "none"
  /\ pick = [kind |-> "none"]
  /\ earlier = [fn |-> "none"]
  /\ service = [pc |-> "idle"]
  /\ homePage = [pc |-> "unmounted"]
  /\ transactionList = [pc |-> "unmounted"]

\* calculateDifficulty(input) for an input that carries the bits value
\* e * 2^24 + m in one of the accepted forms
CalculateDifficultyOfBits ==
  /\ fn = "none"
  /\ \E e \in ExponentBytes, m \in Mantissas, form \in FormNames :
    /\ fn' = "calculateDifficulty"
    /\ args' = <<BitsForm(e, m, form)>>
    /\ result' = calculateDifficulty(args'[1])
    /\ pick' = [kind |-> "bits", e |-> e, m |-> m, form |-> form]
  /\ UNCHANGED componentVars

\* calculateDifficulty(input) for a malformed input
CalculateDifficultyOfMalformed ==
  /\ fn = "none"
  /\ \E id \in DOMAIN MalformedInputs :
    /\ fn' = "calculateDifficulty"
    /\ args' = <<MalformedInputs[id]>>
    /\ result' = calculateDifficulty(args'[1])
    /\ pick' = [kind |-> "malformed", id |-> id]
  /\ UNCHANGED componentVars

\* the caller has used the returned value; nothing of the call is kept
Discard ==
  /\ fn # "none"
  /\ fn' = "none"
  /\ args' = <<>>
  /\ result' = "none"
  /\ pick' = [kind |-> "none"]
  /\ UNCHANGED componentVars

\* identifyMiner(coinbaseData), as the pages call it
IdentifyMinerOfScript ==
  /\ fn = "none"
  /\ \E s \in ScriptsOf(MaxPieces) :
    /\ fn' = "identifyMiner"
    /\ args' = <<Str(s), Undefined>>
    /\ result' = identifyMiner(args'[1], args'[2])
    /\ pick' = [kind |-> "script"]
  /\ UNCHANGED componentVars

\* identifyMiner(coinbaseData, rawBlockData)
IdentifyMinerOfBlock ==
  /\ fn = "none"
  /\ \E c \in BlockScripts, b \in Blocks :
    /\ fn' = "identifyMiner"
    /\ args' = <<c, b>>
    /\ result' = identifyMiner(args'[1], args'[2])
    /\ pick' = [kind |-> "block"]
  /\ UNCHANGED componentVars

\* identifyMinerFromRawBlock(rawBlockData), as the service calls it for
\* every block it returns
IdentifyMinerFromRawBlockOf ==
  /\ fn = "none"
  /\ \E b \in RawBlocks :
    /\ fn' = "identifyMinerFromRawBlock"
    /\ args' = <<b>>
    /\ result' = identifyMinerFromRawBlock(args'[1])
    /\ pick' = [kind |-> "rawblock"]
  /\ UNCHANGED componentVars

NextMiner ==
  IdentifyMinerOfScript \/ IdentifyMinerOfBlock \/ IdentifyMinerFromRawBlockOf \/ Discard

SpecMiner == Init /\ [][NextMiner]_vars

\* Two calls of the same utility.  The utilities hold no state of their own:
\* their tables are constants built inside each call, and none assigns to a
\* property of its arguments.  What a second call can see of a first one is
\* what the caller keeps (earlier) and the locale of the runtime, which
\* stays what it is.
InitCalls ==
  /\ fn = "none"
  /\ args = <<>>
  /\ result = "none"
  /\ \E l \in Locales : pick = [kind |-> "runtime", locale |-> l]
  /\ earlier = [fn |-> "none"]
  /\ service = [pc |-> "idle"]
  /\ homePage = [pc |-> "unmounted"]
  /\ transactionList = [pc |-> "unmounted"]

\* the value a utility returns for its arguments
ValueOf(f, a, locale) ==
  CASE f = "calculateDifficulty" -> calculateDifficulty(a[1])
    [] f = "identifyMiner" -> identifyMiner(a[1], a[2])
    [] f = "formatBtcAmount" -> formatBtcAmount(a[1])
    [] f = "formatNumber" -> formatNumber(a[1], locale)
    [] f = "formatFileSize" -> formatFileSize(a[1])
    [] f = "truncateMiddle" -> truncateMiddle(a[1], a[2], a[3])

CallUtility ==
  /\ fn = "none"
  /\ \E c \in SampleCalls :
    /\ fn' = c.fn
    /\ args' = c.args
    /\ result' = ValueOf(c.fn, c.args, pick.locale)
  /\ UNCHANGED <<pick, componentVars>>

\* the caller keeps the call and its value
Remember ==
  /\ fn # "none" /\ earlier.fn = "none"
  /\ earlier' = [fn |-> fn, args |-> args, result |-> result]
  /\ fn' = "none"
  /\ args' = <<>>
  /\ result' = "none"
  /\ UNCHANGED <<pick, service, homePage, transactionList>>

\* the caller drops the call
Forget ==
  /\ fn # "none"
  /\ fn' = "none"
  /\ args' = <<>>
  /\ result' = "none"
  /\ UNCHANGED <<pick, componentVars>>

NextCalls == CallUtility \/ Remember \/ Forget

SpecCalls == InitCalls /\ [][NextCalls]_vars

NextDifficulty ==
  CalculateDifficultyOfBits \/ CalculateDifficultyOfMalformed \/ Discard

SpecDifficulty == Init /\ [][NextDifficulty]_vars

\* a transaction in the raw format (out)
AggregateRaw ==
  /\ fn = "none"
  /\ \E flag \in Flags, explicitFee \in Fees, inputs \in InputLists, out \in OutputLists :
    /\ fn' = "TransactionItem"
    /\ args' = <<TransactionOf(flag, explicitFee, inputs, out, Absent)>>
    /\ result' = TransactionItemMemo(args'[1])
    /\ pick' = [kind |-> "raw"]
  /\ UNCHANGED componentVars

\* a transaction in the fallback format (outputs)
AggregateFallback ==
  /\ fn = "none"
  /\ \E flag \in Flags, explicitFee \in Fees, inputs \in InputLists, outputs \in OutputLists :
    /\ fn' = "TransactionItem"
    /\ args' = <<TransactionOf(flag, explicitFee, inputs, Absent, outputs)>>
    /\ result' = TransactionItemMemo(args'[1])
    /\ pick' = [kind |-> "fallback"]
  /\ UNCHANGED componentVars

\* a transaction that carries both lists of outputs
AggregateBoth ==
  /\ fn = "none"
  /\ \E flag \in Flags, explicitFee \in Fees, inputs \in ShortInputLists,
        out \in ShortOutputLists \ {Absent}, outputs \in ShortOutputLists \ {Absent} :
    /\ fn' = "TransactionItem"
    /\ args' = <<TransactionOf(flag, explicitFee, inputs, out, outputs)>>
    /\ result' = TransactionItemMemo(args'[1])
    /\ pick' = [kind |-> "both"]
  /\ UNCHANGED componentVars

NextTransaction ==
  AggregateRaw \/ AggregateFallback \/ AggregateBoth \/ Discard

SpecTransaction == Init /\ [][NextTransaction]_vars

FormatBtcAmountOf ==
  /\ fn = "none"
  /\ \E satoshis \in Amounts \cup NegativeAmounts \cup NonNumbers \cup {NaN} :
    /\ fn' = "formatBtcAmount"
    /\ args' = <<satoshis>>
    /\ result' = formatBtcAmount(satoshis)
    /\ pick' = [kind |-> "format"]
  /\ UNCHANGED componentVars

FormatFileSizeOf ==
  /\ fn = "none"
  /\ \E bytes \in ByteCounts \cup NegativeAmounts \cup NonNumbers \cup {NaN} :
    /\ fn' = "formatFileSize"
    /\ args' = <<bytes>>
    /\ result' = formatFileSize(bytes)
    /\ pick' = [kind |-> "format"]
  /\ UNCHANGED componentVars

\* the host's locale is part of the environment of the call
FormatNumberOf ==
  /\ fn = "none"
  /\ \E number \in GroupedNumbers \cup NonNumbers, locale \in Locales :
    /\ fn' = "formatNumber"
    /\ args' = <<number>>
    /\ result' = formatNumber(number, locale)
    /\ pick' = [kind |-> "format", locale |-> locale]
  /\ UNCHANGED componentVars

TruncateMiddleOf ==
  /\ fn = "none"
  /\ \E str \in TruncatedStrings \cup NonNumbers \cup {IntNum(12345), NaN},
        startChars \in CharCounts, endChars \in CharCounts :
    /\ fn' = "truncateMiddle"
    /\ args' = <<str, startChars, endChars>>
    /\ result' = truncateMiddle(str, startChars, endChars)
    /\ pick' = [kind |-> "format"]
  /\ UNCHANGED componentVars

\* the host's time zone is part of the environment of the call
FormatTimestampOf ==
  /\ fn = "none"
  /\ \E timestamp \in Timestamps \cup NonNumbers \cup {NaN}, offset \in Offsets :
    /\ fn' = "formatTimestamp"
    /\ args' = <<timestamp>>
    /\ result' = formatTimestamp(timestamp, offset)
    /\ pick' = [kind |-> "format", offset |-> offset]
  /\ UNCHANGED componentVars

\* the clock is part of the environment of the call
FormatTimeAgoOf ==
  /\ fn = "none"
  /\ \E now \in Clocks :
       \E timestamp \in {IntNum(now - e) : e \in ElapsedSeconds}
                          \cup {IntNum(0), NaN} \cup NonNumbers :
    /\ fn' = "formatTimeAgo"
    /\ args' = <<timestamp>>
    /\ result' = formatTimeAgo(timestamp, IntNum(now))
    /\ pick' = [kind |-> "format", now |-> now]
  /\ UNCHANGED componentVars

NextFormat ==
  \/ FormatBtcAmountOf \/ FormatFileSizeOf \/ FormatNumberOf
  \/ TruncateMiddleOf \/ FormatTimestampOf \/ FormatTimeAgoOf \/ Discard

SpecFormat == Init /\ [][NextFormat]_vars

Next == NextDifficulty \/ NextMiner \/ NextTransaction \/ NextFormat

Spec == Init /\ [][Next]_vars

-----------------------------------------------------------------------------
(* blockchainService: getTransactionsByIds.  The variable service holds the  *)
(* call: its argument, one slot for each mapped id (the request in flight   *)
(* or the value its async callback returned), the requests sent so far and  *)
(* the outcomes received so far.                                            *)

MaxIds == 2

TxIds == {"e3b0", "77af"}

\* the argument: no array, an empty array, arrays of ids (an id may repeat)
TxIdArguments ==
  {Undefined, Null, Str("e3b0")} \cup {Arr(l) : l \in ListsOf(TxIds, MaxIds)}

\* what the rawtx endpoint answers for an id
RawTransaction(txId) == Obj([hash |-> Str(txId), endpoint |-> Str("rawtx")])

\* what the transactions endpoint answers for an id: a list with the
\* transaction, or an empty list
RegularTransaction(txId) == Obj([txid |-> Str(txId), endpoint |-> Str("transactions")])
RegularAnswers(txId) == {Arr(<<RegularTransaction(txId)>>), Arr(<<>>)}

\* transactions.filter(tx => tx !== null), left out
FilterNothing(transactions) == transactions

\* transactions.filter(tx => tx !== null)
FilterNull(transactions) == SelectSeq(transactions, LAMBDA tx : tx # Null)

\* the slots after slot i settled with value v
SettledSlot(slots, i, v) == [slots EXCEPT ![i] = [state |-> "settled", value |-> v]]

\* Promise.all: pending until every callback has returned, then the filter
\* and the return
AwaitAll(s, slots, requests, log) ==
  IF \A i \in DOMAIN slots : slots[i].state = "settled"
  THEN [pc |-> "returned", txIds |-> s.txIds, slots |-> slots,
        requests |-> requests, log |-> log,
        value |-> Arr(FilterNull([i \in DOMAIN slots |-> slots[i].value]))]
  ELSE [pc |-> "pending", txIds |-> s.txIds, slots |-> slots,
        requests |-> requests, log |-> log]

\* the call up to the await: the guard, then one rawtx request for each id
GetTransactionsByIds ==
  /\ service.pc = "idle"
  /\ \E txIds \in TxIdArguments :
       service' =
         IF txIds.t # "array" \/ Len(txIds.items) = 0
         THEN [pc |-> "returned", txIds |-> txIds, slots |-> <<>>,
               requests |-> <<>>, log |-> <<>>, value |-> Arr(<<>>)]
         ELSE [pc |-> "pending", txIds |-> txIds,
               slots |-> [i \in DOMAIN txIds.items |-> [state |-> "rawtx"]],
               requests |-> [i \in DOMAIN txIds.items |->
                               [endpoint |-> "rawtx", index |-> i, txId |-> txIds.items[i]]],
               log |-> <<>>]
  /\ UNCHANGED <<callVars, homePage, transactionList>>

\* the rawtx request of slot i is answered: return response.data
RawTxResponds ==
  /\ service.pc = "pending"
  /\ \E i \in DOMAIN service.slots :
       /\ service.slots[i].state = "rawtx"
       /\ LET data == RawTransaction(service.txIds.items[i]) IN
          service' = AwaitAll(service, SettledSlot(service.slots, i, data), service.requests,
                              Append(service.log, [endpoint |-> "rawtx", index |-> i,
                                                   outcome |-> "response", data |-> data]))
  /\ UNCHANGED <<callVars, homePage, transactionList>>

\* the rawtx request of slot i fails (an error status, no network, or the
\* timeout of 10 s): the catch sends the request to the transactions endpoint
RawTxFails ==
  /\ service.pc = "pending"
  /\ \E i \in DOMAIN service.slots :
       /\ service.slots[i].state = "rawtx"
       /\ service' =
            [service EXCEPT
               !.slots[i] = [state |-> "transactions"],
               !.requests = Append(@, [endpoint |-> "transactions", index |-> i,
                                       txId |-> service.txIds.items[i]]),
               !.log = Append(@, [endpoint |-> "rawtx", index |-> i,
                                  outcome |-> "error", data |-> Undefined])]
  /\ UNCHANGED <<callVars, homePage, transactionList>>

\* the fallback request of slot i is answered: return data[0] || null
TransactionsResponds ==
  /\ service.pc = "pending"
  /\ \E i \in DOMAIN service.slots :
       /\ service.slots[i].state = "transactions"
       /\ \E data \in RegularAnswers(service.txIds.items[i]) :
            service' = AwaitAll(service,
                                SettledSlot(service.slots, i, OrElse(At(data, 0), Null)),
                                service.requests,
                                Append(service.log, [endpoint |-> "transactions", index |-> i,
                                                     outcome |-> "response", data |-> data]))
  /\ UNCHANGED <<callVars, homePage, transactionList>>

\* the fallback request of slot i fails as well: return null
TransactionsFails ==
  /\ service.pc = "pending"
  /\ \E i \in DOMAIN service.slots :
       /\ service.slots[i].state = "transactions"
       /\ service' = AwaitAll(service, SettledSlot(service.slots, i, Null), service.requests,
                              Append(service.log, [endpoint |-> "transactions", index |-> i,
                                                   outcome |-> "error", data |-> Undefined]))
  /\ UNCHANGED <<callVars, homePage, transactionList>>

\* the caller has the value
ServiceReturns ==
  /\ service.pc = "returned"
  /\ service' = [pc |-> "idle"]
  /\ UNCHANGED <<callVars, homePage, transactionList>>

NextService ==
  \/ GetTransactionsByIds
  \/ RawTxResponds
  \/ RawTxFails
  \/ TransactionsResponds
  \/ TransactionsFails
  \/ ServiceReturns

SpecService == Init /\ [][NextService]_vars

-----------------------------------------------------------------------------
(* HomePage: the block list and its load-more.  The variable homePage holds *)
(* the state of the component (blocks, isLoadingMore, isCheckingNew,        *)
(* lowestBlockHeight, highestBlockHeight; 0 stands for the null of the two  *)
(* heights, which the code only tests for truth), the height of the chain   *)
(* the server knows, the calls of handleLoadMore that are awaiting a fetch  *)
(* (runs), and how the last finished call ended (last: "merged" when it     *)
(* entered blocks, "nothing" when there were none, "rejected").  A block   *)
(* is its hash and its height; the chain has one block at every height.    *)

initialBlockCount == 10
additionalBlockCount == 10

\* the height of the chain when the page is opened, and how many blocks are
\* mined while it is open
FirstHeight == 25
MaxMined == 11

\* how many calls of handleLoadMore can be awaiting at once at most (the
\* guard of the code stays below it)
MaxRuns == 2

Block(h) == [hash |-> <<"block", h>>, height |-> h]

\* Array.from({length: count}, (_, i) => top - i)
HeightsFrom(top, count) == [i \in 1..count |-> top - (i - 1)]

Reverse(list) == [i \in 1..Len(list) |-> list[Len(list) + 1 - i]]

\* the answers of the heights endpoint: the blocks that exist among the
\* heights asked for, in the order asked or in the order of the chain
BlocksAtHeights(heights, chain) ==
  LET found == SelectSeq(heights, LAMBDA h : h >= 0 /\ h <= chain)
      blocks == [i \in 1..Len(found) |-> Block(found[i])]
  IN {blocks, Reverse(blocks)}

\* getLatestBlocks(count)
getLatestBlocks(count, chain) == BlocksAtHeights(HeightsFrom(chain, count), chain)

\* getNewerBlocks(highestKnownHeight, maxCount) on a chain of the given
\* height: the newest min(latest - highest, maxCount) blocks
getNewerBlocks(highestKnownHeight, maxCount, chain) ==
  IF highestKnownHeight = 0 THEN {<<>>}
  ELSE IF chain <= highestKnownHeight THEN {<<>>}
  ELSE LET difference == chain - highestKnownHeight
           newBlocksCount == IF difference < maxCount THEN difference ELSE maxCount
       IN BlocksAtHeights(HeightsFrom(chain, newBlocksCount), chain)

\* getAdditionalBlocks(startHeight, count)
getAdditionalBlocks(startHeight, count, chain) ==
  IF startHeight <= 0 THEN getLatestBlocks(count, chain)
  ELSE BlocksAtHeights(HeightsFrom(startHeight - 1, count), chain)

\* F of the value x, with x computed once
Once(x, F(_)) == CHOOSE y \in {F(v) : v \in {x}} : TRUE

\* map.set(block.hash, block) on the values of a Map: a key keeps the place
\* of its first entry and takes the value of its last
MapSet(m, block) ==
  IF \E k \in DOMAIN m : m[k].hash = block.hash
  THEN [k \in DOMAIN m |-> IF m[k].hash = block.hash THEN block ELSE m[k]]
  ELSE Append(m, block)

\* Array.from(new Map(list.map(block => [block.hash, block])).values()) of
\* the first n entries
RECURSIVE MapValues(_, _)
MapValues(list, n) ==
  IF n = 0 THEN <<>>
  ELSE Once(MapValues(list, n - 1), LAMBDA m : MapSet(m, list[n]))

\* a block entered into a list in descending order of height, behind the
\* blocks of its height
InsertByHeight(sorted, block) ==
  Once(Cardinality({k \in DOMAIN sorted : sorted[k].height >= block.height}),
       LAMBDA ahead :
         SubSeq(sorted, 1, ahead) \o <<block>> \o SubSeq(sorted, ahead + 1, Len(sorted)))

\* list.sort((a, b) => b.height - a.height) of the first n entries: stable,
\* highest first
RECURSIVE SortByHeightDescending(_, _)
SortByHeightDescending(list, n) ==
  IF n = 0 THEN <<>>
  ELSE Once(SortByHeightDescending(list, n - 1),
            LAMBDA sorted : InsertByHeight(sorted, list[n]))

\* the height of the first block of [...list].sort((a, b) => a.height - b.height)
MinHeight(list) ==
  CHOOSE h \in {list[k].height : k \in DOMAIN list} :
    \A k \in DOMAIN list : h <= list[k].height

\* the height of the first block of [...list].sort((a, b) => b.height - a.height)
MaxHeight(list) ==
  CHOOSE h \in {list[k].height : k \in DOMAIN list} :
    \A k \in DOMAIN list : h >= list[k].height

\* the updater given to setBlocks, without its sort
MergeBlocksWithoutSort(newerBlocks, prevBlocks, olderBlocks) ==
  Once(newerBlocks \o prevBlocks \o olderBlocks,
       LAMBDA combinedBlocks : MapValues(combinedBlocks, Len(combinedBlocks)))

\* the updater given to setBlocks
MergeBlocks(newerBlocks, prevBlocks, olderBlocks) ==
  Once(newerBlocks \o prevBlocks \o olderBlocks,
       LAMBDA combinedBlocks :
         Once(MapValues(combinedBlocks, Len(combinedBlocks)),
              LAMBDA uniqueBlocks :
                SortByHeightDescending(uniqueBlocks, Len(uniqueBlocks))))

\* the guard of handleLoadMore without the test of isLoadingMore
LoadMoreGuardWithoutFlag(page) ==
  page.lowestBlockHeight = 0 \/ page.highestBlockHeight = 0

\* if (isLoadingMore || !lowestBlockHeight || !highestBlockHeight) return
LoadMoreGuard(page) ==
  page.isLoadingMore \/ page.lowestBlockHeight = 0 \/ page.highestBlockHeight = 0

Without(runs, r) == SubSeq(runs, 1, r - 1) \o SubSeq(runs, r + 1, Len(runs))

\* the page is opened: the component mounts and the latestBlocks query starts
MountHomePage ==
  /\ homePage.pc = "unmounted"
  /\ homePage' = [pc |-> "loading", chain |-> FirstHeight, blocks |-> <<>>,
                  isLoadingMore |-> FALSE, isCheckingNew |-> FALSE,
                  lowestBlockHeight |-> 0, highestBlockHeight |-> 0,
                  runs |-> <<>>, last |-> "none"]
  /\ UNCHANGED <<callVars, service, transactionList>>

\* a block is mined
MineBlock ==
  /\ homePage.pc # "unmounted"
  /\ homePage.chain < FirstHeight + MaxMined
  /\ homePage' = [homePage EXCEPT !.chain = @ + 1]
  /\ UNCHANGED <<callVars, service, transactionList>>

\* the latestBlocks query has its data: the effect sets blocks and heights
LatestBlocksArrive ==
  /\ homePage.pc = "loading"
  /\ \E latestBlocks \in getLatestBlocks(initialBlockCount, homePage.chain) :
       homePage' = [homePage EXCEPT
                      !.pc = "shown",
                      !.blocks = latestBlocks,
                      !.lowestBlockHeight = MinHeight(latestBlocks),
                      !.highestBlockHeight = MaxHeight(latestBlocks)]
  /\ UNCHANGED <<callVars, service, transactionList>>

\* handleLoadMore is called: it returns at the guard, or sets the flags and
\* awaits getNewerBlocks
HandleLoadMore ==
  /\ homePage.pc = "shown"
  /\ Len(homePage.runs) < MaxRuns
  /\ homePage' =
       IF LoadMoreGuard(homePage) THEN homePage
       ELSE [homePage EXCEPT
               !.isLoadingMore = TRUE,
               !.isCheckingNew = TRUE,
               !.runs = Append(@, [await |-> "getNewerBlocks",
                                   highestBlockHeight |-> homePage.highestBlockHeight,
                                   lowestBlockHeight |-> homePage.lowestBlockHeight])]
  /\ UNCHANGED <<callVars, service, transactionList>>

\* getNewerBlocks resolves with its blocks: the call goes on to await
\* getAdditionalBlocks
NewerBlocksArrive ==
  /\ homePage.pc = "shown"
  /\ \E r \in DOMAIN homePage.runs :
       /\ homePage.runs[r].await = "getNewerBlocks"
       /\ \E newerBlocks \in getNewerBlocks(homePage.runs[r].highestBlockHeight,
                                           additionalBlockCount, homePage.chain) :
            homePage' = [homePage EXCEPT
                           !.isCheckingNew = FALSE,
                           !.runs[r] = [await |-> "getAdditionalBlocks",
                                        highestBlockHeight |-> @.highestBlockHeight,
                                        lowestBlockHeight |-> @.lowestBlockHeight,
                                        newerBlocks |-> newerBlocks,
                                        newerFailed |-> FALSE,
                                        latestBlockHeight |-> homePage.chain]]
  /\ UNCHANGED <<callVars, service, transactionList>>

\* a request of getNewerBlocks fails: its catch returns []
NewerBlocksFail ==
  /\ homePage.pc = "shown"
  /\ \E r \in DOMAIN homePage.runs :
       /\ homePage.runs[r].await = "getNewerBlocks"
       /\ homePage' = [homePage EXCEPT
                         !.isCheckingNew = FALSE,
                         !.runs[r] = [await |-> "getAdditionalBlocks",
                                      highestBlockHeight |-> @.highestBlockHeight,
                                      lowestBlockHeight |-> @.lowestBlockHeight,
                                      newerBlocks |-> <<>>,
                                      newerFailed |-> TRUE,
                                      latestBlockHeight |-> homePage.chain]]
  /\ UNCHANGED <<callVars, service, transactionList>>

\* the rest of handleLoadMore once getAdditionalBlocks has resolved for the
\* call r: the merge, the two heights, the finally
LoadMoreResolved(page, r, olderBlocks) ==
  LET run == page.runs[r]
      newerBlocks == run.newerBlocks
      any == Len(newerBlocks) > 0 \/ Len(olderBlocks) > 0
  IN [page EXCEPT
        !.blocks = IF any THEN MergeBlocks(newerBlocks, @, olderBlocks) ELSE @,
        !.lowestBlockHeight =
           IF any /\ Len(olderBlocks) > 0 THEN MinHeight(olderBlocks) ELSE @,
        !.highestBlockHeight =
           IF any /\ Len(newerBlocks) > 0 THEN MaxHeight(newerBlocks) ELSE @,
        !.isLoadingMore = FALSE,
        !.runs = Without(@, r),
        !.last = IF any THEN "merged" ELSE "nothing"]

\* getAdditionalBlocks resolves
OlderBlocksArrive ==
  /\ homePage.pc = "shown"
  /\ \E r \in DOMAIN homePage.runs :
       /\ homePage.runs[r].await = "getAdditionalBlocks"
       /\ \E olderBlocks \in getAdditionalBlocks(homePage.runs[r].lowestBlockHeight,
                                                additionalBlockCount, homePage.chain) :
            homePage' = LoadMoreResolved(homePage, r, olderBlocks)
  /\ UNCHANGED <<callVars, service, transactionList>>

\* getAdditionalBlocks rejects: the catch logs, the finally resets the flag
OlderBlocksReject ==
  /\ homePage.pc = "shown"
  /\ \E r \in DOMAIN homePage.runs :
       /\ homePage.runs[r].await = "getAdditionalBlocks"
       /\ homePage' = [homePage EXCEPT
                         !.isLoadingMore = FALSE,
                         !.runs = Without(@, r),
                         !.last = "rejected"]
  /\ UNCHANGED <<callVars, service, transactionList>>

NextHomePage ==
  \/ MountHomePage
  \/ MineBlock
  \/ LatestBlocksArrive
  \/ HandleLoadMore
  \/ NewerBlocksArrive
  \/ NewerBlocksFail
  \/ OlderBlocksArrive
  \/ OlderBlocksReject

SpecHomePage == Init /\ [][NextHomePage]_vars

\* every request ends: with an answer, or at the latest with the timeout of
\* the axios instance
SpecHomePageFair ==
  /\ Init
  /\ [][NextHomePage]_vars
  /\ WF_vars(NewerBlocksArrive \/ NewerBlocksFail)
  /\ WF_vars(OlderBlocksArrive \/ OlderBlocksReject)

-----------------------------------------------------------------------------
(* TransactionList: the paginated list and its load-more.  The variable     *)
(* transactionList holds the prop transactionHashes, the state of the       *)
(* component (visibleCount, loadingMore, allTransactions), the ref          *)
(* initialLoadCompletedRef, the query of the current key (the hashes it was *)
(* started with, whether it is pending, its data) and the calls of          *)
(* getTransactionsByIds made so far (fetches).  useQuery is that of         *)
(* @tanstack/react-query 5 (package.json): it has no onSuccess and no       *)
(* onError option, and a query of a new key has no data until its fetch     *)
(* has ended.  The query function cannot reject, because                    *)
(* getTransactionsByIds does not.                                           *)

initialCount == 10
loadMoreCount == 10

\* the longest list of transaction hashes of a block
MaxHashes == 25

HashCounts == {0, 1, 5, initialCount, initialCount + 1, 2 * initialCount, MaxHashes}

\* the hashes of the transactions of a block: all different
TransactionHashes(n) == [k \in 1..n |-> k]

\* transactionHashes?.slice(0, visibleCount) || []
displayedHashes(list) ==
  SubSeq(list.transactionHashes, 1,
         IF list.visibleCount < Len(list.transactionHashes)
         THEN list.visibleCount ELSE Len(list.transactionHashes))

\* what getTransactionsByIds can return for the hashes: every transaction
\* from the rawtx endpoint, every transaction from the transactions
\* endpoint, nothing, only the first initialCount, all but the first
FetchResults(hashes) ==
  LET raw == [k \in DOMAIN hashes |-> [hash |-> hashes[k]]]
      regular == [k \in DOMAIN hashes |-> [txid |-> hashes[k]]]
      first == IF Len(hashes) < initialCount THEN Len(hashes) ELSE initialCount
  IN {raw, regular, <<>>, SubSeq(raw, 1, first), SubSeq(raw, 2, Len(raw))}

\* tx.txid || tx.hash
getTransactionId(tx) == IF "txid" \in DOMAIN tx THEN tx.txid ELSE tx.hash

\* the new transactions of a batch, without the test against the list
UnfilteredTxs(data, allTransactions) == data

\* newTransactionsData.filter(tx => !existingTxMap.has(getTransactionId(tx)))
NewTxs(data, allTransactions) ==
  SelectSeq(data, LAMBDA tx :
    \A k \in DOMAIN allTransactions :
      getTransactionId(allTransactions[k]) # getTransactionId(tx))

\* hasMore, with the end of the list counted in
hasMoreInclusive(list) == list.visibleCount <= Len(list.transactionHashes)

\* hasMore: transactionHashes && visibleCount < transactionHashes.length
hasMore(list) == list.visibleCount < Len(list.transactionHashes)

\* the button is rendered
LoadMoreButtonShown(list) ==
  /\ list.pc = "mounted"
  /\ Len(list.transactionHashes) > 0
  /\ Len(list.allTransactions) > 0
  /\ hasMore(list)

\* disabled={loadingMore}
LoadMoreButtonDisabled(list) == list.loadingMore

\* the query of the key of this render: started when the key is new and
\* displayedHashes is not empty
StartQuery(list) ==
  IF Len(displayedHashes(list)) > 0
  THEN [list EXCEPT
          !.query = [status |-> "pending", hashes |-> displayedHashes(list)],
          !.fetches = Append(@, displayedHashes(list))]
  ELSE [list EXCEPT !.query = [status |-> "disabled"]]

\* the two effects after a render, in their order: the initial load, then
\* the batch of a load-more.  Both read the allTransactions of the render;
\* the second reads the ref as the first left it.
Effects(list) ==
  LET data == IF list.query.status = "success" THEN list.query.data ELSE <<>>
      hasData == list.query.status = "success"
      initialLoad ==
        hasData /\ Len(data) > 0 /\ Len(list.allTransactions) = 0
          /\ ~list.initialLoadCompleted
      completed == list.initialLoadCompleted \/ initialLoad
      batch == completed /\ list.loadingMore /\ hasData
      newTxs == IF batch THEN NewTxs(data, list.allTransactions) ELSE <<>>
  IN [list EXCEPT
        !.allTransactions = (IF initialLoad THEN data ELSE @) \o newTxs,
        !.initialLoadCompleted = completed,
        !.loadingMore = IF batch THEN FALSE ELSE @]

\* the effects, and again after the render that their updates cause
Commit(list) == Effects(Effects(list))

\* the block page shows the list of a block
MountTransactionList ==
  /\ transactionList.pc = "unmounted"
  /\ \E n \in HashCounts :
       transactionList' =
         Commit(StartQuery([pc |-> "mounted",
                            transactionHashes |-> TransactionHashes(n),
                            visibleCount |-> initialCount,
                            loadingMore |-> FALSE,
                            allTransactions |-> <<>>,
                            initialLoadCompleted |-> FALSE,
                            query |-> [status |-> "disabled"],
                            fetches |-> <<>>]))
  /\ UNCHANGED <<callVars, service, homePage>>

\* getTransactionsByIds has returned: the query has its data, the component
\* renders and its effects run
TransactionsArrive ==
  /\ transactionList.pc = "mounted"
  /\ transactionList.query.status = "pending"
  /\ \E data \in FetchResults(transactionList.query.hashes) :
       transactionList' =
         Commit([transactionList EXCEPT
                   !.query = [status |-> "success", hashes |-> @.hashes, data |-> data]])
  /\ UNCHANGED <<callVars, service, homePage>>

\* handleLoadMore is called from the button: it returns at the guard, or
\* sets loadingMore and raises visibleCount, and the render that follows
\* starts the query of the new key
HandleLoadMoreTransactions ==
  /\ LoadMoreButtonShown(transactionList)
  /\ transactionList' =
       IF transactionList.loadingMore THEN transactionList
       ELSE Commit(StartQuery([transactionList EXCEPT
                                 !.loadingMore = TRUE,
                                 !.visibleCount = @ + loadMoreCount]))
  /\ UNCHANGED <<callVars, service, homePage>>

NextTransactionList ==
  \/ MountTransactionList
  \/ TransactionsArrive
  \/ HandleLoadMoreTransactions

SpecTransactionList == Init /\ [][NextTransactionList]_vars

\* every call of getTransactionsByIds returns: each of its requests ends
\* with an answer, an error or the timeout
SpecTransactionListFair ==
  /\ Init
  /\ [][NextTransactionList]_vars
  /\ WF_vars(TransactionsArrive)

-----------------------------------------------------------------------------
(* Reference arithmetic for the difficulty properties: the target of a     *)
(* bits value with exponent byte e (0..255, unsigned) and mantissa m is    *)
(* TargetMantissa(e, m) * 16^TargetDigits(e).                              *)

RECURSIVE Pow256(_)
Pow256(k) == IF k = 0 THEN 1 ELSE 256 * Pow256(k - 1)

TargetMantissa(e, m) == IF e >= 3 THEN m ELSE m \div Pow256(3 - e)

TargetDigits(e) == IF e >= 3 THEN 2 * (e - 3) ELSE 0

\* 0xFFFF * 2^208
MaxTargetNumeral == "ffff" \o Zeros(52)

\* numeral q times the target of (e, m), for a target below 16^64
TimesTarget(q, e, m) ==
  LET prod == MulSmall(q, TargetMantissa(e, m), 0)
      p == StripZeros(SmallToHex(prod.carry) \o prod.digits)
  IN IF p = "0" THEN "0" ELSE p \o Zeros(TargetDigits(e))

\* a <= b on canonical numerals
NumeralLe(a, b) ==
  \/ Len(a) < Len(b)
  \/ /\ Len(a) = Len(b)
     /\ LET diff == {i \in 1..Len(a) : CharAt(a, i) # CharAt(b, i)}
        IN \/ diff = {}
           \/ LET i == CHOOSE x \in diff : \A y \in diff : x <= y
              IN HexVal(CharAt(a, i)) < HexVal(CharAt(b, i))

Ones(n) == SubSeq("1111111111111111111111111111111111111111111111111111111111111111", 1, n)

\* b - 1 on a binary numeral, b > 0
BinDec(b) ==
  LET oneAt == {i \in 1..Len(b) : CharAt(b, i) = "1"}
      i == CHOOSE x \in oneAt : \A y \in oneAt : y <= x
  IN SubSeq(b, 1, i - 1) \o "0" \o Ones(Len(b) - i)

NumeralOfBin(b) == StripZeros(BinToHex(b))

\* lo <= maxTarget div target <= hi - 1, i.e. lo * target <= maxTarget < hi * target
QuotientBetween(lo, hi, e, m) ==
  IF TargetMantissa(e, m) = 0 THEN FALSE
  ELSE IF TargetDigits(e) >= 56 THEN lo = "0"
  ELSE /\ NumeralLe(TimesTarget(lo, e, m), MaxTargetNumeral)
       /\ ~NumeralLe(TimesTarget(hi, e, m), MaxTargetNumeral)

\* q is the integer quotient maxTarget div target, and 0 for a zero target
IsQuotient(q, e, m) ==
  IF TargetMantissa(e, m) = 0 THEN q = "0"
  ELSE QuotientBetween(q, NumeralOfBin(BinInc(HexToBin(q))), e, m)

\* r is a double nearest to the quotient: the quotient itself below 2^53,
\* else 53 significant bits within half a unit in the last place of it
IsDoubleOfQuotient(r, e, m) ==
  LET b == StripZeros(HexToBin(r))
      n == Len(b)
  IN IF n <= MantissaBits THEN IsQuotient(r, e, m)
     ELSE LET top == SubSeq(b, 1, MantissaBits)
              k == n - MantissaBits
              below == BinDec(top) \o "1" \o Zeros(k - 1)
              above == BinInc(top \o "1" \o Zeros(k - 1))
          IN /\ SubSeq(b, MantissaBits + 1, n) = Zeros(k)
             /\ QuotientBetween(NumeralOfBin(below), NumeralOfBin(above), e, m)

\* the decoded target is neither zero nor above the difficulty-1 target
TargetInRange(e, m) ==
  IF e <= 3 THEN TargetMantissa(e, m) >= 1
  ELSE IF e <= 27 THEN TRUE
  ELSE IF e = 28 THEN m <= 65535 * 256
  ELSE IF e = 29 THEN m <= 65535
  ELSE IF e = 30 THEN m <= 255
  ELSE FALSE

IsNumeral(s) ==
  /\ s # ""
  /\ \A i \in 1..Len(s) : CharAt(s, i) \in CharsOf(HexChars)

CalledWithBits == fn = "calculateDifficulty" /\ pick.kind = "bits"

\* the forms in which a zero bits value lets another field take over
FallbackForms ==
  {"{bits_hex:number,nBits:other}", "{bits:number,bits_hex:other,nBits:other}"}

-----------------------------------------------------------------------------
(* Properties of calculateDifficulty                                       *)

\* C1 (as stated): every bits value with a non-zero exponent byte and a
\* non-zero mantissa has a positive difficulty, never 0.
C1_PositiveForNonZeroFields ==
  (CalledWithBits /\ pick.e # 0 /\ pick.m # 0) => result # "0"

\* C1 (amended): for a bits value with non-zero exponent byte and mantissa
\* the difficulty is a positive finite number exactly when the decoded
\* target is non-zero and at most the difficulty-1 target 0xFFFF * 2^208;
\* for every other such value it is 0.
C1_PositiveIffTargetInRange ==
  (CalledWithBits /\ pick.e # 0 /\ pick.m # 0) =>
    /\ IsNumeral(result)
    /\ (result # "0") <=> TargetInRange(pick.e, pick.m)

C1_Witness ==
  /\ CalledWithBits /\ pick.e = 26 /\ pick.m = 89939 /\ pick.form = "number"
  /\ result = "ba897f"

\* C2: calculateDifficulty never throws and returns exactly 0 for 0, null,
\* undefined, an object without a usable bits field, a non-hex string and
\* any other input that is not a bits value.
C2_ZeroForMalformed ==
  fn = "calculateDifficulty" =>
    /\ IsNumeral(result)
    /\ pick.kind = "malformed" => result = "0"

\* C3 (as stated): for every bits value the difficulty equals the integer
\* quotient (0xFFFF * 2^208) div target, and 0 when mantissa, exponent or
\* target is 0, the exponent being the unsigned top byte.
C3_EqualsIntegerQuotient ==
  (CalledWithBits /\ ~(pick.form \in FallbackForms /\ pick.e = 0 /\ pick.m = 0))
    => IsQuotient(result, pick.e, pick.m)

\* C3 (amended): for every bits value the difficulty is the integer
\* quotient (0xFFFF * 2^208) div target converted to a double: the quotient
\* itself when it is below 2^53, otherwise the quotient rounded to 53
\* significant bits; it is 0 when mantissa, exponent or target is 0, also
\* for an exponent byte >= 0x80.
C3_EqualsDoubleOfQuotient ==
  (CalledWithBits /\ ~(pick.form \in FallbackForms /\ pick.e = 0 /\ pick.m = 0))
    => IsDoubleOfQuotient(result, pick.e, pick.m)

C3_Witness ==
  /\ CalledWithBits /\ pick.e = 3 /\ pick.m = 7 /\ pick.form = "number"
  /\ result = "24922492492492" \o Zeros(42)

\* C4: the genesis encoding 0x1d00ffff has difficulty 1 in every accepted
\* input form, through the shortcut and through the general formula.
C4_GenesisIsOne ==
  (CalledWithBits /\ pick.e = 29 /\ pick.m = 65535) => result = "1"

C4_Witness ==
  /\ CalledWithBits /\ pick.e = 29 /\ pick.m = 65535 /\ pick.form = "0xHEX"
  /\ args[1] = Str("0x1D00FFFF")
  /\ result = "1"

\* C5: one bits value gives the same difficulty as a number, as a hex
\* string with or without 0x, and inside an object; an object without a
\* bits field is read from bits_hex, then from nBits.
C5_SameResultInEveryForm ==
  CalledWithBits =>
    LET n == BitsNumber(pick.e, pick.m)
        asNumber == calculateDifficulty(n)
    IN CASE pick.form = "{bits_hex:number,nBits:other}" ->
              result = IF Truthy(n) THEN asNumber ELSE calculateDifficulty(OtherBits)
         [] pick.form = "{bits:number,bits_hex:other,nBits:other}" ->
              Truthy(n) => result = asNumber
         [] OTHER -> result = asNumber

C5_Witness ==
  /\ CalledWithBits /\ pick.e = 26 /\ pick.m = 89939
  /\ pick.form = "{bits_hex:number,nBits:other}"
  /\ args[1] = Obj([bits_hex |-> Num(6657, 24403), nBits |-> OtherBits])
  /\ result = "ba897f"

-----------------------------------------------------------------------------
(* Reference definitions for the identifyMiner properties: what each pass  *)
(* can match, stated on the arguments of the call.                         *)

CalledIdentifyMiner == fn = "identifyMiner"

\* the argument is a non-empty script
IsScript(v) == v.t = "string" /\ v.s # ""

Min(S) == CHOOSE x \in S : \A y \in S : x <= y

\* the first position at which t occurs in s (0: nowhere)
IndexOf(s, t) ==
  LET at == {k \in 1..(Len(s) - Len(t) + 1) : SubSeq(s, k, k + Len(t) - 1) = t}
  IN IF at = {} THEN 0 ELSE Min(at)

\* the entries of the hex pattern list that occur in the lower-cased script
HexMatches(v) ==
  IF ~IsScript(v) THEN {}
  ELSE {i \in 1..Len(minerHexPatterns) :
          IndexOf(toLowerCase(v.s), minerHexPatterns[i].pattern) > 0}

\* the entries of the signature table with a signature in the decoded text
SignatureMatches(v) ==
  IF ~IsScript(v) THEN {}
  ELSE LET text == toLowerCase(AsciiHint(toLowerCase(v.s)))
       IN {p \in 1..Len(minerSignatures) :
             \E k \in 1..Len(minerSignatures[p].signatures) :
               IndexOf(text, toLowerCase(minerSignatures[p].signatures[k])) > 0}

\* the outputs of the first transaction of a block (none if it has none)
FirstOutputs(b) ==
  IF b.t = "object" /\ "tx" \in DOMAIN b.f
  THEN LET tx == b.f.tx
       IN IF tx.t = "array" /\ Len(tx.items) > 0
          THEN LET first == tx.items[1]
               IN IF first.t = "object" /\ "out" \in DOMAIN first.f
                  THEN IF first.f.out.t = "array" THEN first.f.out.items ELSE <<>>
                  ELSE <<>>
          ELSE <<>>
  ELSE <<>>

\* the outputs of the first transaction whose address is in the address table
KnownOutputs(b) ==
  {j \in 1..Len(FirstOutputs(b)) :
     LET o == FirstOutputs(b)[j]
     IN /\ o.t = "object" /\ "addr" \in DOMAIN o.f
        /\ o.f.addr.t = "string" /\ o.f.addr.s \in DOMAIN minerAddresses}

PoolOfOutput(b, j) == minerAddresses[FirstOutputs(b)[j].f.addr.s]

HasPoolWord(v) == IsScript(v) /\ IndexOf(toLowerCase(v.s), "706f6f6c") > 0

\* every label of the static tables
PoolNames ==
  {minerSignatures[p].name : p \in 1..Len(minerSignatures)}
    \cup {minerHexPatterns[i].name : i \in 1..Len(minerHexPatterns)}
    \cup {minerAddresses[a] : a \in DOMAIN minerAddresses}

\* the label of the first pass, in the order hex, text, address, generic,
\* that has a match
FirstMatchInOrder(c, b) ==
  IF HexMatches(c) # {} THEN minerHexPatterns[Min(HexMatches(c))].name
  ELSE IF SignatureMatches(c) # {} THEN minerSignatures[Min(SignatureMatches(c))].name
  ELSE IF KnownOutputs(b) # {} THEN PoolOfOutput(b, Min(KnownOutputs(b)))
  ELSE IF HasPoolWord(c) THEN "Mining Pool"
  ELSE "Unknown Miner"

-----------------------------------------------------------------------------
(* Properties of identifyMiner                                             *)

\* C6: identifyMiner applies its passes in a fixed order and the first match
\* wins: raw hex pattern, then decoded ASCII signature, then payout address
\* of the block context, then the generic "Mining Pool" label for a script
\* holding 706f6f6c, else "Unknown Miner".
C6_FirstMatchingPassWins ==
  CalledIdentifyMiner => result = FirstMatchInOrder(args[1], args[2])

\* C7: when several patterns of the hex list occur in the lower-cased script
\* the pool of the earliest list entry is returned, and without a hex match
\* the pool of the first entry of the signature table that has a signature in
\* the decoded text; where the matches lie in the script plays no part.
C7_EarliestTableEntryWins ==
  CalledIdentifyMiner /\ IsScript(args[1]) =>
    /\ HexMatches(args[1]) # {} =>
         result = minerHexPatterns[Min(HexMatches(args[1]))].name
    /\ HexMatches(args[1]) = {} /\ SignatureMatches(args[1]) # {} =>
         result = minerSignatures[Min(SignatureMatches(args[1]))].name

\* a script in which a later list entry occurs before the earliest one, and
\* the call returned the pool of the earliest
C7_Witness ==
  /\ CalledIdentifyMiner /\ IsScript(args[1])
  /\ \E i, j \in HexMatches(args[1]) :
       /\ i = Min(HexMatches(args[1])) /\ i < j
       /\ minerHexPatterns[i].name # minerHexPatterns[j].name
       /\ IndexOf(toLowerCase(args[1].s), minerHexPatterns[j].pattern)
            < IndexOf(toLowerCase(args[1].s), minerHexPatterns[i].pattern)
       /\ result = minerHexPatterns[i].name

\* C8: identifyMiner always returns a pool name of its static tables,
\* "Mining Pool" or "Unknown Miner", and "Unknown Miner" for an empty, null,
\* undefined or non-string script without a block context.
C8_ReturnsKnownLabel ==
  CalledIdentifyMiner =>
    /\ result \in PoolNames \cup {"Mining Pool", "Unknown Miner"}
    /\ ~IsScript(args[1]) /\ args[2].t \in {"null", "undefined"} =>
         result = "Unknown Miner"

\* C9: an error raised inside the address pass counts as no match of that
\* pass only: a script without a hex or signature match that holds 706f6f6c
\* still yields "Mining Pool" when the block context is malformed.
C9_ErrorSkipsOnePassOnly ==
  /\ CalledIdentifyMiner
  /\ HexMatches(args[1]) = {} /\ SignatureMatches(args[1]) = {}
  /\ AddressPass(args[2]) = TypeError
  => result = IF HasPoolWord(args[1]) THEN "Mining Pool" ELSE "Unknown Miner"

\* C10: when no script pass matches, the pool of the first output of the
\* first transaction whose address is in the address table is returned, and
\* without such an output no address decides the result: the outputs of
\* later transactions never do.
C10_FirstKnownOutputOfFirstTransaction ==
  /\ CalledIdentifyMiner
  /\ HexMatches(args[1]) = {} /\ SignatureMatches(args[1]) = {}
  => IF KnownOutputs(args[2]) # {}
     THEN result = PoolOfOutput(args[2], Min(KnownOutputs(args[2])))
     ELSE result \in {"Mining Pool", "Unknown Miner"}

-----------------------------------------------------------------------------
(* Reference definitions for the TransactionItem properties, stated on     *)
(* the fields of the transaction as integers.                              *)

CalledTransactionItem == fn = "TransactionItem"

\* the list under a field of the transaction (empty if the field is absent)
HasField(o, k) == o.t = "object" /\ k \in DOMAIN o.f
ListAt(tx, k) == IF HasField(tx, k) THEN tx.f[k].items ELSE <<>>

\* the value of an output, of the previous output of an input (0 if missing)
ValueOfOutput(o) == IF HasField(o, "value") THEN ToInt(o.f.value) ELSE 0
ValueOfInput(i) == IF HasField(i, "prev_out") THEN ValueOfOutput(i.f.prev_out) ELSE 0

RECURSIVE SumOfOutputs(_)
SumOfOutputs(l) == IF l = <<>> THEN 0 ELSE ValueOfOutput(Head(l)) + SumOfOutputs(Tail(l))

RECURSIVE SumOfInputs(_)
SumOfInputs(l) == IF l = <<>> THEN 0 ELSE ValueOfInput(Head(l)) + SumOfInputs(Tail(l))

\* the explicit fee (0 if the field is absent)
ExplicitFee(tx) == IF HasField(tx, "fee") THEN ToInt(tx.f.fee) ELSE 0

\* the sum of the list of outputs that counts: out if there, else outputs
SumOfTransactionOutputs(tx) ==
  IF HasField(tx, "out") THEN SumOfOutputs(ListAt(tx, "out"))
  ELSE SumOfOutputs(ListAt(tx, "outputs"))

\* the first output: of out, or of outputs when out has none
FirstOutputList(tx) ==
  IF ListAt(tx, "out") # <<>> THEN ListAt(tx, "out") ELSE ListAt(tx, "outputs")

\* flagged, or the first input has a coinbase marker or no previous output
IsCoinbaseTransaction(tx) ==
  \/ HasField(tx, "is_coinbase") /\ tx.f.is_coinbase = Bool(TRUE)
  \/ /\ ListAt(tx, "inputs") # <<>>
     /\ \/ HasField(ListAt(tx, "inputs")[1], "coinbase")
        \/ ~HasField(ListAt(tx, "inputs")[1], "prev_out")

-----------------------------------------------------------------------------
(* Properties of TransactionItem                                           *)

\* C11 as stated: the explicit fee field is used only when the summed input
\* value is 0; whenever that sum is non-zero the fee is totalInput -
\* totalOutput whatever the fee field says.
C11_FeeFieldOnlyWithoutInputs ==
  CalledTransactionItem =>
    LET tx == args[1]
        sumIn == SumOfInputs(ListAt(tx, "inputs"))
    IN ToInt(result.fee) =
         IF sumIn # 0 THEN sumIn - SumOfTransactionOutputs(tx) ELSE ExplicitFee(tx)

\* C11 amended: a non-zero explicit fee field is the fee whatever the inputs
\* are; without one the fee is totalInput - totalOutput when totalInput is
\* positive, negative differences included, and 0 otherwise.
C11_ExplicitFeeFirst ==
  CalledTransactionItem =>
    LET tx == args[1]
        sumIn == SumOfInputs(ListAt(tx, "inputs"))
    IN ToInt(result.fee) =
         IF ExplicitFee(tx) # 0 THEN ExplicitFee(tx)
         ELSE IF sumIn > 0 THEN sumIn - SumOfTransactionOutputs(tx)
         ELSE 0

\* a transaction with inputs and an explicit fee that differs from
\* totalInput - totalOutput: the explicit fee is returned
C11_Witness ==
  /\ CalledTransactionItem
  /\ SumOfInputs(ListAt(args[1], "inputs")) > 0
  /\ ExplicitFee(args[1]) # 0
  /\ ExplicitFee(args[1]) #
       SumOfInputs(ListAt(args[1], "inputs")) - SumOfTransactionOutputs(args[1])
  /\ ToInt(result.fee) = ExplicitFee(args[1])

\* C12: totalOutput is the sum of the values of transaction.out when that
\* list exists and otherwise of transaction.outputs, never of both, and an
\* output without a value counts as 0.
C12_OneListOfOutputs ==
  CalledTransactionItem =>
    ToInt(result.totalOutput) = SumOfTransactionOutputs(args[1])

\* both lists carry value and only out is counted
C12_Witness ==
  /\ CalledTransactionItem
  /\ SumOfOutputs(ListAt(args[1], "out")) > 0
  /\ SumOfOutputs(ListAt(args[1], "outputs")) > 0
  /\ ToInt(result.totalOutput) = SumOfOutputs(ListAt(args[1], "out"))

\* C13: a transaction is coinbase when is_coinbase is set or its first input
\* has a coinbase marker or no previous output; then primaryFrom is the
\* coinbase label with the value totalOutput.  Otherwise primaryFrom is the
\* address and value of the first input's previous output, or "Unknown
\* Address" when that address is absent.
C13_PrimaryFrom ==
  CalledTransactionItem =>
    LET tx == args[1]
        inputs == ListAt(tx, "inputs")
    IN IF IsCoinbaseTransaction(tx)
       THEN /\ result.primaryFromAddress.addr = Str("Coinbase (Newly Generated Coins)")
            /\ ToInt(result.primaryFromAddress.value) = SumOfTransactionOutputs(tx)
       ELSE IF inputs # <<>> /\ HasField(inputs[1].f.prev_out, "addr")
       THEN /\ result.primaryFromAddress.addr = inputs[1].f.prev_out.f.addr
            /\ ToInt(result.primaryFromAddress.value) = ValueOfInput(inputs[1])
       ELSE result.primaryFromAddress.addr = Str("Unknown Address")

\* an unflagged transaction whose first input has neither a coinbase marker
\* nor a previous output is reported as coinbase with the value of its outputs
C13_Witness ==
  /\ CalledTransactionItem
  /\ ~HasField(args[1], "is_coinbase")
  /\ ListAt(args[1], "inputs") # <<>>
  /\ ~HasField(ListAt(args[1], "inputs")[1], "coinbase")
  /\ ~HasField(ListAt(args[1], "inputs")[1], "prev_out")
  /\ SumOfTransactionOutputs(args[1]) > 0
  /\ result.primaryFromAddress =
       [addr |-> Str("Coinbase (Newly Generated Coins)"),
        value |-> IntNum(SumOfTransactionOutputs(args[1]))]

\* C14: primaryTo is the address of the first output when it has one,
\* "Script Output" when the first output has a script and no address, in
\* either shape (out or outputs), and "Unknown Address" without outputs.
C14_PrimaryTo ==
  CalledTransactionItem =>
    LET outs == FirstOutputList(args[1])
    IN IF outs = <<>> THEN result.primaryToAddress.addr = Str("Unknown Address")
       ELSE IF HasField(outs[1], "addr")
       THEN result.primaryToAddress.addr = outs[1].f.addr
       ELSE IF HasField(outs[1], "script")
       THEN result.primaryToAddress.addr = Str("Script Output")
       ELSE TRUE

-----------------------------------------------------------------------------
(* Reference definitions for the formatter properties                      *)

IsMissing(v) == v.t \in {"null", "undefined"}

\* v is a number that is an integer >= 0
IsNonNegativeInteger(v) == v.t = "number" /\ ~v.nan /\ v.hi >= 0 /\ v.lo >= 0

\* s div 10^8 and s mod 10^8 of s = hi * 65536 + lo < 2^47, by splitting hi
\* into h1 * 10^8 + c * 10^4 + d and c * 65536 into e1 * 10^4 + e0
SatoshiRest(v) ==
  LET c == (v.hi % 100000000) \div 10000
      d == v.hi % 10000
  IN ((c * 65536) % 10000) * 10000 + d * 65536 + v.lo

WholeCoins(v) ==
  LET c == (v.hi % 100000000) \div 10000
  IN (v.hi \div 100000000) * 65536 + (c * 65536) \div 10000
       + SatoshiRest(v) \div 100000000

SatoshiFraction(v) == SatoshiRest(v) % 100000000

DecimalDigits == "0123456789"

\* the decimal digits of n >= 0, at least width of them
RECURSIVE DecimalText(_, _)
DecimalText(n, width) ==
  IF n < 10 /\ width <= 1 THEN CharAt(DecimalDigits, n + 1)
  ELSE DecimalText(n \div 10, width - 1) \o CharAt(DecimalDigits, (n % 10) + 1)

\* the integer written by the decimal digits in s, other characters skipped
RECURSIVE DigitsValue(_, _)
DigitsValue(s, acc) ==
  IF s = "" THEN acc
  ELSE LET at == {k \in 1..10 : CharAt(DecimalDigits, k) = CharAt(s, 1)}
       IN DigitsValue(Tail(s), IF at = {} THEN acc ELSE acc * 10 + (CHOOSE k \in at : TRUE) - 1)

-----------------------------------------------------------------------------
(* Properties of the formatters                                            *)

C16_SentinelForNegative ==
  /\ fn = "formatBtcAmount"
  /\ IsMissing(args[1]) \/ (args[1].t = "number" /\ ~args[1].nan /\ IsNegative(args[1]))
  => result = Return("Unknown")

\* C17: formatBtcAmount, formatNumber, formatFileSize, truncateMiddle,
\* formatTimestamp and formatTimeAgo return a string for an input of any
\* kind and never throw.
C17_FormattersAreTotal ==
  fn \in {"formatBtcAmount", "formatNumber", "formatFileSize", "truncateMiddle",
          "formatTimestamp", "formatTimeAgo"}
  => "returns" \in DOMAIN result

\* C18: truncateMiddle returns "" for an empty or missing string, the string
\* itself when its length is at most startChars + endChars, and otherwise
\* its first startChars characters, "..." and its last endChars characters
\* (6 and 6 by default).
C18_FirstAndLastCharacters ==
  fn = "truncateMiddle" /\ (IsMissing(args[1]) \/ args[1].t = "string") =>
    LET startChars == IF args[2].t = "undefined" THEN 6 ELSE ToInt(args[2])
        endChars == IF args[3].t = "undefined" THEN 6 ELSE ToInt(args[3])
    IN IF IsMissing(args[1]) \/ args[1].s = "" THEN result = Return("")
       ELSE LET str == args[1].s
            IN IF Len(str) <= startChars + endChars THEN result = Return(str)
               ELSE result = Return(SubSeq(str, 1, startChars) \o "..."
                                      \o SubSeq(str, Len(str) - endChars + 1, Len(str)))

\* a string cut with unequal counts, the last characters differing from the
\* ones that follow the first
C18_Witness ==
  /\ fn = "truncateMiddle" /\ args[1].t = "string"
  /\ args[2].t = "number" /\ args[3].t = "number"
  /\ ToInt(args[2]) # ToInt(args[3]) /\ ToInt(args[3]) > 0
  /\ Len(args[1].s) > ToInt(args[2]) + ToInt(args[3])
  /\ result = Return(SubSeq(args[1].s, 1, ToInt(args[2])) \o "..."
                       \o SubSeq(args[1].s, Len(args[1].s) - ToInt(args[3]) + 1,
                                 Len(args[1].s)))
  /\ result # Return(SubSeq(args[1].s, 1, ToInt(args[2])) \o "..."
                       \o SubSeq(args[1].s, ToInt(args[2]) + 1,
                                 ToInt(args[2]) + ToInt(args[3])))

UnitSeconds == {intervals[i].seconds : i \in 1..Len(intervals)}

LabelOf(u) == intervals[CHOOSE i \in 1..Len(intervals) : intervals[i].seconds = u].label

\* the text for e elapsed seconds
TimeAgoText(e) ==
  IF e < 1 THEN "Just now"
  ELSE LET u == CHOOSE x \in UnitSeconds :
                  x <= e /\ \A y \in UnitSeconds : y <= e => y <= x
           n == e \div u
       IN DecimalText(n, 1) \o " " \o LabelOf(u) \o (IF n # 1 THEN "s" ELSE "") \o " ago"

\* C19: with e = now - timestamp formatTimeAgo renders floor(e / u) for the
\* largest unit u <= e, the unit in the plural exactly when the count is not
\* 1, "Just now" for e < 1 and "Unknown" for a falsy timestamp.
C19_LargestUnit ==
  fn = "formatTimeAgo" =>
    /\ args[1].t = "number" /\ ~args[1].nan /\ args[1] # Num(0, 0) =>
         result = Return(TimeAgoText(pick.now - ToInt(args[1])))
    /\ ~Truthy(args[1]) => result = Return("Unknown")

\* one whole larger unit and a rest: the count is 1 and the unit singular
C19_Witness ==
  /\ fn = "formatTimeAgo" /\ args[1].t = "number" /\ Truthy(args[1])
  /\ \E u \in UnitSeconds \ {1} :
       /\ pick.now - ToInt(args[1]) = u + 1
       /\ result = Return("1 " \o LabelOf(u) \o " ago")

\* the byte count as a numeral, and 1024^k
BytesNumeral(v) == NumToString16(v)
Numeral1024(k) ==
  CASE k = 0 -> "1" [] k = 1 -> "400" [] k = 2 -> "100000" [] k = 3 -> "40000000"

\* the unit of a byte count: the largest of B, KB, MB, GB it reaches
UnitIndexOf(v) ==
  LET reached == {k \in 0..3 : k = 0 \/ NumeralLe(Numeral1024(k), BytesNumeral(v))}
  IN CHOOSE k \in reached : \A j \in reached : j <= k

\* the number and the unit of a text "<number> <unit>"
SpaceAt(text) == CHOOSE i \in 1..Len(text) : CharAt(text, i) = " "
ShownNumber(text) == SubSeq(text, 1, SpaceAt(text) - 1)
ShownUnit(text) == SubSeq(text, SpaceAt(text) + 1, Len(text))

\* the text has exactly f decimals
HasDecimals(number, f) ==
  LET points == {i \in 1..Len(number) : CharAt(number, i) = "."}
  IN IF f = 0 THEN points = {} ELSE points = {Len(number) - f}

\* the digits before the decimal point, as an integer
ShownWhole(number) ==
  LET points == {i \in 1..Len(number) : CharAt(number, i) = "."}
  IN DigitsValue(IF points = {} THEN number
                 ELSE SubSeq(number, 1, (CHOOSE i \in points : TRUE) - 1), 0)

\* number, read without its point as the integer H, is bytes / 1024^k times
\* 10^f rounded to the nearest integer, halves upwards:
\* (2H - 1) * 1024^k <= 2 * 10^f * bytes < (2H + 1) * 1024^k
IsRoundedScaledValue(number, v, k, f) ==
  LET H == DigitsValue(number, 0)
      twice == BigTimes(BytesNumeral(v), IF f = 0 THEN 2 ELSE 200)
  IN /\ H = 0 \/ NumeralLe(BigTimes(Numeral1024(k), 2 * H - 1), twice)
     /\ ~NumeralLe(BigTimes(Numeral1024(k), 2 * H + 1), twice)

\* C20 as stated: the unit is the one in which the scaled value is below
\* 1024 (GB at most), with 0 decimals for B and 2 otherwise, and the number
\* shown in front of B, KB or MB is always below 1024.
C20_ShownNumberBelow1024 ==
  fn = "formatFileSize" =>
    /\ IsNonNegativeInteger(args[1]) =>
         LET k == UnitIndexOf(args[1])
             text == result.returns
         IN /\ ShownUnit(text) = units[k + 1]
            /\ HasDecimals(ShownNumber(text), IF k = 0 THEN 0 ELSE 2)
            /\ k < 3 => ShownWhole(ShownNumber(text)) < 1024
    /\ IsMissing(args[1]) => result = Return("Unknown")

\* C20 amended: the unit is the one in which the scaled value is below 1024
\* (GB at most) and the number shown is the scaled value rounded to 0
\* decimals for B and to 2 decimals otherwise; in front of B, KB or MB it is
\* at most 1024.00.
C20_RoundedScaledValue ==
  fn = "formatFileSize" =>
    /\ IsNonNegativeInteger(args[1]) =>
         LET k == UnitIndexOf(args[1])
             f == IF k = 0 THEN 0 ELSE 2
             text == result.returns
         IN /\ ShownUnit(text) = units[k + 1]
            /\ HasDecimals(ShownNumber(text), f)
            /\ IsRoundedScaledValue(ShownNumber(text), args[1], k, f)
            /\ k < 3 => \/ ShownWhole(ShownNumber(text)) < 1024
                        \/ ShownNumber(text) = "1024.00"
    /\ IsMissing(args[1]) => result = Return("Unknown")

\* one byte less than 1024^2 is shown as 1024.00 KB
C20_Witness ==
  /\ fn = "formatFileSize" /\ IsNonNegativeInteger(args[1])
  /\ UnitIndexOf(args[1]) = 1
  /\ result = Return("1024.00 KB")

-----------------------------------------------------------------------------
(* Reference definitions for the decoded text of a script                  *)

\* the k-th pair of characters of s, k = 1, 2, ...; the last may be short
PairAt(s, k) == SubSeq(s, 2 * k - 1, IF 2 * k <= Len(s) THEN 2 * k ELSE Len(s))

PairCount(s) == (Len(s) + 1) \div 2

\* the value of a pair of two hex digits, and -1 for any other pair
ByteOfPair(pair) ==
  IF Len(pair) = 2 /\ \A i \in 1..2 : \E d \in 0..15 : CharAt(pair, i) = HexDigit(d)
  THEN 16 * (CHOOSE d \in 0..15 : CharAt(pair, 1) = HexDigit(d))
         + (CHOOSE d \in 0..15 : CharAt(pair, 2) = HexDigit(d))
  ELSE 0 - 1

\* the characters of the pairs from..to of s that are bytes of the printable
\* range, in their order
RECURSIVE PrintableText(_, _, _)
PrintableText(s, from, to) ==
  IF from > to THEN ""
  ELSE IF from = to
  THEN LET byte == ByteOfPair(PairAt(s, from))
       IN IF byte \in 32..126 THEN CharAt(Printable, byte - 31) ELSE ""
  ELSE LET mid == (from + to) \div 2
       IN PrintableText(s, from, mid) \o PrintableText(s, mid + 1, to)

\* the entries of the signature table with a signature in the printable
\* bytes of the lower-cased script
PrintableMatches(v) ==
  LET script == toLowerCase(v.s)
      text == toLowerCase(PrintableText(script, 1, PairCount(script)))
  IN {p \in 1..Len(minerSignatures) :
        \E k \in 1..Len(minerSignatures[p].signatures) :
          IndexOf(text, toLowerCase(minerSignatures[p].signatures[k])) > 0}

\* C25: the ASCII pass matches the signatures against exactly the bytes of
\* the script in the printable range 32..126, in their order: a pair that is
\* no byte or is not printable is skipped and the pairs after it still take
\* part (shown on the calls whose script has no raw hex match).
C25_SkipsUndecodablePairs ==
  CalledIdentifyMiner /\ IsScript(args[1]) /\ HexMatches(args[1]) = {} =>
    /\ PrintableMatches(args[1]) # {} =>
         result = minerSignatures[Min(PrintableMatches(args[1]))].name
    /\ PrintableMatches(args[1]) = {} /\ args[2].t \in {"null", "undefined"} =>
         result = IF HasPoolWord(args[1]) THEN "Mining Pool" ELSE "Unknown Miner"

\* a script whose first pair is no byte and whose later bytes spell a
\* signature: the pool of the signature is returned
C25_Witness ==
  /\ CalledIdentifyMiner /\ IsScript(args[1]) /\ HexMatches(args[1]) = {}
  /\ ByteOfPair(PairAt(toLowerCase(args[1].s), 1)) = 0 - 1
  /\ PrintableMatches(args[1]) # {}
  /\ result = minerSignatures[Min(PrintableMatches(args[1]))].name

-----------------------------------------------------------------------------
(* Properties of identifyMinerFromRawBlock                                 *)

\* whether a raw block has transactions, and its coinbase script: the script
\* of the first input of its first transaction
HasTransactions(b) ==
  b.t = "object" /\ "tx" \in DOMAIN b.f /\ b.f.tx.t = "array" /\ Len(b.f.tx.items) > 0

HasCoinbaseScript(b) ==
  /\ HasTransactions(b)
  /\ LET t == b.f.tx.items[1]
     IN /\ t.t = "object" /\ "inputs" \in DOMAIN t.f
        /\ t.f.inputs.t = "array" /\ Len(t.f.inputs.items) > 0
        /\ t.f.inputs.items[1].t = "object"
        /\ "script" \in DOMAIN t.f.inputs.items[1].f

CoinbaseScriptOf(b) == b.f.tx.items[1].f.inputs.items[1].f.script

\* C29: the label of identifyMinerFromRawBlock depends on the script of the
\* first input of the first transaction only: every raw block with the same
\* coinbase script gets the same label, whatever its outputs, and a block
\* without transactions gets "Unknown Miner".
C29_LabelDependsOnScriptOnly ==
  fn = "identifyMinerFromRawBlock" =>
    /\ HasCoinbaseScript(args[1]) =>
         \A b \in RawBlocks :
           HasCoinbaseScript(b) /\ CoinbaseScriptOf(b) = CoinbaseScriptOf(args[1])
             => identifyMinerFromRawBlock(b) = result
    /\ ~HasTransactions(args[1]) => result = "Unknown Miner"

\* a block that pays the address of SlushPool and whose script names no
\* pool is labelled by its script
C29_Witness ==
  /\ fn = "identifyMinerFromRawBlock" /\ HasCoinbaseScript(args[1])
  /\ FirstOutputs(args[1]) # <<>>
  /\ \E j \in KnownOutputs(args[1]) : PoolOfOutput(args[1], j) = "SlushPool"
  /\ CoinbaseScriptOf(args[1]) \in {Str("6d696e6564"), Str("706f6f6c")}
  /\ result \in {"Unknown Miner", "Mining Pool"}

-----------------------------------------------------------------------------
(* Properties of the aggregation in TransactionItem, continued             *)

\* C30: the primary recipient is drawn from the output list that totalOutput
\* sums, so its value is at most totalOutput (all output values being
\* non-negative), also for a transaction with both out and outputs of which
\* one is empty.
C30_PrimaryToWithinTotal ==
  CalledTransactionItem =>
    ToInt(result.primaryToAddress.value) <= ToInt(result.totalOutput)

-----------------------------------------------------------------------------
(* Properties of repeated calls                                            *)

-----------------------------------------------------------------------------
(* Properties of getTransactionsByIds, stated on the requests sent and the  *)
(* outcomes received                                                        *)

\* the outcomes of kind o that the endpoint e gave for slot i
Outcomes(e, i, o) ==
  {k \in DOMAIN service.log :
     /\ service.log[k].endpoint = e
     /\ service.log[k].index = i
     /\ service.log[k].outcome = o}

\* the transaction a succeeded request delivered for slot i, if any: the
\* body of the rawtx response, or the first entry of the transactions list
Delivered(i) ==
  IF Outcomes("rawtx", i, "response") # {}
  THEN {service.log[k].data : k \in Outcomes("rawtx", i, "response")}
  ELSE {service.log[k].data.items[1] :
          k \in {j \in Outcomes("transactions", i, "response") :
                   Len(service.log[j].data.items) > 0}}

RECURSIVE DeliveredInOrder(_)
DeliveredInOrder(n) ==
  IF n = 0 THEN <<>>
  ELSE IF Delivered(n) = {} THEN DeliveredInOrder(n - 1)
  ELSE Append(DeliveredInOrder(n - 1), CHOOSE tx \in Delivered(n) : TRUE)

\* the requests sent for slot i to endpoint e
Requests(e, i) ==
  {k \in DOMAIN service.requests :
     service.requests[k].endpoint = e /\ service.requests[k].index = i}

\* C28: getTransactionsByIds always returns (a call never ends in a
\* rejection: every state of a call is pending or returned with an array);
\* for no array and for an empty array it returns [] without a request; every
\* id gets one rawtx request, and a transactions request only after its
\* rawtx request failed; the value returned holds, in the order of the ids,
\* exactly the transactions that the succeeded requests delivered, and no
\* null.
C28_NeverRejectsAndKeepsDelivered ==
  /\ service.pc \in {"idle", "pending", "returned"}
  /\ service.pc = "returned" =>
       /\ service.value.t = "array"
       /\ (service.txIds.t # "array" \/ Length(service.txIds) = 0) =>
            service.value = Arr(<<>>) /\ service.requests = <<>>
       /\ service.txIds.t = "array" =>
            /\ service.value.items = DeliveredInOrder(Length(service.txIds))
            /\ \A k \in DOMAIN service.value.items : service.value.items[k] # Null
  /\ service.pc \in {"pending", "returned"} /\ service.txIds.t = "array" =>
       \A i \in 1..Length(service.txIds) :
         /\ Cardinality(Requests("rawtx", i)) = 1
         /\ Cardinality(Requests("transactions", i)) =
              Cardinality(Outcomes("rawtx", i, "error"))
         /\ Cardinality(Requests("transactions", i)) <= 1
         /\ \A k \in Requests("rawtx", i) : service.requests[k].txId = service.txIds.items[i]
         /\ \A k \in Requests("transactions", i) : service.requests[k].txId = service.txIds.items[i]

\* a call with two ids has returned one transaction: the first id failed on
\* both endpoints, the second was delivered by the fallback
C28_Witness ==
  /\ service.pc = "returned" /\ Length(service.txIds) = 2
  /\ Outcomes("transactions", 1, "error") # {}
  /\ Outcomes("transactions", 2, "response") # {}
  /\ Len(service.value.items) = 1
  /\ service.value.items[1] = RegularTransaction(service.txIds.items[2])

-----------------------------------------------------------------------------
(* Properties of the load-more of HomePage                                  *)

\* a step in which a call of handleLoadMore runs to its end
LoadMoreEnds ==
  /\ homePage.pc = "shown" /\ homePage'.pc = "shown"
  /\ homePage.isLoadingMore /\ ~homePage'.isLoadingMore

HeightsOf(list) == {list[k].height : k \in DOMAIN list}

\* C22: when a load-more in which no request failed ends, the list holds a
\* block of every height above the highest height known when the load-more
\* began, up to the height of the chain that the load-more read.
C22_NoGapAboveKnownBlocks ==
  [][LoadMoreEnds /\ homePage'.last # "rejected" /\ ~homePage.runs[1].newerFailed =>
       \A h \in (homePage.runs[1].highestBlockHeight + 1)..homePage.runs[1].latestBlockHeight :
         h \in HeightsOf(homePage'.blocks)]_vars

\* C23: when a load-more that returned at least one newer or older block
\* ends, the list holds no hash twice, is in descending order of height,
\* and still holds every block it held before.
C23_UniqueSortedAndKept ==
  [][LoadMoreEnds /\ homePage'.last = "merged" =>
       /\ \A j, k \in DOMAIN homePage'.blocks :
            j # k => homePage'.blocks[j].hash # homePage'.blocks[k].hash
       /\ \A j, k \in DOMAIN homePage'.blocks :
            j < k => homePage'.blocks[j].height >= homePage'.blocks[k].height
       /\ \A j \in DOMAIN homePage.blocks :
            \E k \in DOMAIN homePage'.blocks : homePage'.blocks[k] = homePage.blocks[j]]_vars

\* a load-more has entered newer and older blocks next to the first ten
C23_Witness ==
  /\ homePage.pc = "shown" /\ homePage.last = "merged" /\ ~homePage.isLoadingMore
  /\ homePage.highestBlockHeight > FirstHeight
  /\ homePage.lowestBlockHeight < FirstHeight - initialBlockCount
  /\ Len(homePage.blocks) > initialBlockCount + additionalBlockCount

\* C26: at most one call of handleLoadMore is awaiting a fetch at any time,
\* a call made while isLoadingMore is true starts none, and whenever
\* isLoadingMore is true it becomes false again, also when a fetch fails.
C26_OneLoadMoreAndFlagReset ==
  /\ [](homePage.pc = "shown" =>
          /\ Len(homePage.runs) <= 1
          /\ homePage.isLoadingMore <=> Len(homePage.runs) = 1)
  /\ [][homePage.pc = "shown" /\ homePage.isLoadingMore =>
          Len(homePage'.runs) <= Len(homePage.runs)]_vars
  /\ (homePage.pc = "shown" /\ homePage.isLoadingMore)
       ~> (homePage.pc = "shown" /\ ~homePage.isLoadingMore)

\* a load-more has ended with the rejection of getAdditionalBlocks, the
\* flag is false again
C26_Witness ==
  /\ homePage.pc = "shown"
  /\ homePage.last = "rejected"
  /\ ~homePage.isLoadingMore
  /\ homePage.runs = <<>>

-----------------------------------------------------------------------------
(* Properties of the load-more of TransactionList                           *)

Mounted == transactionList.pc = "mounted"

\* a step in which a call of handleLoadMore passes its guard
LoadMoreAccepted ==
  /\ Mounted /\ transactionList'.pc = "mounted"
  /\ ~transactionList.loadingMore /\ transactionList'.loadingMore

\* C24: a load-more that is accepted raises visibleCount by exactly 10 and
\* starts exactly one call of getTransactionsByIds, with the first
\* visibleCount hashes; while loadingMore is true the button is disabled
\* and no step raises visibleCount or starts a call; the button is offered
\* only while visibleCount is below the number of hashes.
C24_LoadMoreStepsByTen ==
  /\ [][LoadMoreAccepted =>
          /\ transactionList'.visibleCount = transactionList.visibleCount + 10
          /\ transactionList'.fetches =
               Append(transactionList.fetches,
                      SubSeq(transactionList.transactionHashes, 1,
                             IF transactionList'.visibleCount
                                  < Len(transactionList.transactionHashes)
                             THEN transactionList'.visibleCount
                             ELSE Len(transactionList.transactionHashes)))]_vars
  /\ [][Mounted /\ transactionList.loadingMore /\ transactionList'.pc = "mounted" =>
          /\ transactionList'.visibleCount = transactionList.visibleCount
          /\ transactionList'.fetches = transactionList.fetches]_vars
  /\ [](Mounted /\ transactionList.loadingMore /\ LoadMoreButtonShown(transactionList) =>
          LoadMoreButtonDisabled(transactionList))
  /\ [](LoadMoreButtonShown(transactionList) =>
          transactionList.visibleCount < Len(transactionList.transactionHashes))

\* a list of 25 hashes after two load-mores: 30 are asked for, three calls
\* have been made, and the button is gone
C24_Witness ==
  /\ Mounted /\ Len(transactionList.transactionHashes) = MaxHashes
  /\ transactionList.visibleCount = initialCount + 20
  /\ Len(transactionList.fetches) = 3
  /\ ~transactionList.loadingMore
  /\ Len(transactionList.allTransactions) = MaxHashes
  /\ ~LoadMoreButtonShown(transactionList)

\* C27: whenever loadingMore is true it becomes false again, whether the
\* batch holds new transactions, none that are new, or nothing at all (the
\* shape a failed fetch takes); allTransactions never holds an id twice.
C27_FlagResetAndUniqueIds ==
  /\ [](Mounted =>
          \A j, k \in DOMAIN transactionList.allTransactions :
            j # k => getTransactionId(transactionList.allTransactions[j])
                       # getTransactionId(transactionList.allTransactions[k]))
  /\ (Mounted /\ transactionList.loadingMore)
       ~> (Mounted /\ ~transactionList.loadingMore)

\* a load-more whose batch was empty has ended: the flag is false, the
\* list is as long as before, the button is there again
C27_Witness ==
  /\ Mounted /\ ~transactionList.loadingMore
  /\ Len(transactionList.fetches) = 2
  /\ transactionList.query.status = "success"
  /\ transactionList.query.data = <<>>
  /\ Len(transactionList.allTransactions) = initialCount
  /\ LoadMoreButtonShown(transactionList)

====
